---- MODULE Spec2Model ----
(***************************************************************************)
(* A model of the falkordb-go client: the graph handle (graph.go), its     *)
(* dictionary cache and result parser (result.go) and the reply codec of   *)
(* internal/proto.                                                         *)
(*                                                                         *)
(* Go values of type interface{} are records tagged by k:                  *)
(*   nil, string (s: sequence of one-character strings), int, int64 (n),   *)
(*   bool (b), float64 (tenths: the value times ten), array (a: the        *)
(*   elements of a []interface{}).                                         *)
(* A Go string is a sequence of one-character strings, so that parsing and *)
(* formatting are computed character by character.                         *)
(***************************************************************************)
EXTENDS Integers, Sequences, FiniteSets

(***************************************************************************)
(* Bounds of the model.                                                    *)
(***************************************************************************)
\* Query / ROQuery calls started over the life of the handle
MaxCalls == 2
\* names the server holds in one catalog
MaxNames == 1
\* width of the modelled machine integer (Go: 64)
IntBits == 8
\* largest index, and longest cache table, that resolution is applied to
MaxIndex == 2
\* longest reply the reply splitter is applied to
MaxReplyLen == 4
\* the length of the strings the literal serializer is applied to
MaxStrLen == 3
\* the number of property names passed to a builder
MaxProps == 2
\* the number of calls on one input whose results are compared
MaxRuns == 2
\* the largest double, in tenths, a payload holds
MaxTenths == 31
\* the number of edges of the longest path that is decoded
MaxPathLen == 2
\* the number of cells of the longest row that is assembled
MaxCols == 2
\* the number of rows of the longest lookup reply that is read on its own
MaxRows == 3
\* the number of elements of the longest map payload that is decoded
MaxMapLen == 5

(***************************************************************************)
(* Go values.                                                              *)
(***************************************************************************)
NilV == [k |-> "nil"]
StrV(s) == [k |-> "string", s |-> s]
IntV(n) == [k |-> "int", n |-> n]
Int64V(n) == [k |-> "int64", n |-> n]
BoolV(b) == [k |-> "bool", b |-> b]
FloatV(t) == [k |-> "float64", tenths |-> t]
ArrV(a) == [k |-> "array", a |-> a]

IsArr(v) == v.k = "array"

\* the nil error
NoError == [msg |-> "nil", n |-> 0]
Errorf(msg, n) == [msg |-> msg, n |-> n]

MaxInt == (2 ^ (IntBits - 1)) - 1
MinInt == -(2 ^ (IntBits - 1))

(***************************************************************************)
(* strconv and fmt, as far as the client uses them.                        *)
(***************************************************************************)
Digits == <<"0", "1", "2", "3", "4", "5", "6", "7", "8", "9">>
IsDigit(c) == \E i \in 1..10 : Digits[i] = c
DigitVal(c) == (CHOOSE i \in 1..10 : Digits[i] = c) - 1

RECURSIVE Itoa(_)
\* strconv.Itoa / fmt's %d
Itoa(n) ==
    IF n < 0 THEN <<"-">> \o Itoa(-n)
    ELSE IF n < 10 THEN <<Digits[n + 1]>>
    ELSE Itoa(n \div 10) \o <<Digits[(n % 10) + 1]>>

RECURSIVE ParseUint(_, _)
\* the digits of s accumulated onto acc, saturating just above the range
ParseUint(s, acc) ==
    IF s = <<>> THEN acc
    ELSE LET nxt == acc * 10 + DigitVal(s[1])
         IN ParseUint(Tail(s), IF nxt > MaxInt + 1 THEN MaxInt + 1 ELSE nxt)

\* strconv.ParseInt(s, 10, 64) and strconv.Atoi(s) with the error dropped:
\* 0 on a syntax error, the nearest bound on a range error
ParseInt(s) ==
    LET signed == s # <<>> /\ s[1] \in {"+", "-"}
        neg == s # <<>> /\ s[1] = "-"
        ds == IF signed THEN Tail(s) ELSE s
    IN IF ds = <<>> \/ \E i \in 1..Len(ds) : ~IsDigit(ds[i]) THEN 0
       ELSE LET un == ParseUint(ds, 0)
            IN IF neg THEN (IF un > MaxInt + 1 THEN MinInt ELSE -un)
               ELSE (IF un > MaxInt THEN MaxInt ELSE un)

\* int(f) of a float64: truncation toward zero
TruncTenths(t) == IF t >= 0 THEN t \div 10 ELSE -((-t) \div 10)

\* strconv.ParseFloat(s, 64) with the error dropped, for decimal text with at
\* most one fractional digit: 0 on a syntax error
ParseFloat(s) ==
    LET signed == s # <<>> /\ s[1] \in {"+", "-"}
        neg == s # <<>> /\ s[1] = "-"
        ds == IF signed THEN Tail(s) ELSE s
        dots == {i \in 1..Len(ds) : ds[i] = "."}
        ip == IF dots = {} THEN ds
              ELSE SubSeq(ds, 1, (CHOOSE i \in dots : TRUE) - 1)
        fp == IF dots = {} THEN <<>>
              ELSE SubSeq(ds, (CHOOSE i \in dots : TRUE) + 1, Len(ds))
        bad == \/ Cardinality(dots) > 1
               \/ (ip = <<>> /\ fp = <<>>)
               \/ Len(fp) > 1
               \/ \E i \in 1..Len(ip) : ~IsDigit(ip[i])
               \/ \E i \in 1..Len(fp) : ~IsDigit(fp[i])
    IN IF bad THEN 0
       ELSE LET mag == ParseUint(ip, 0) * 10 + (IF fp = <<>> THEN 0 ELSE DigitVal(fp[1]))
            IN IF neg THEN -mag ELSE mag

\* fmt's %v of a float64 (shortest decimal text)
FormatFloat(t) ==
    LET mag == IF t < 0 THEN -t ELSE t
        sign == IF t < 0 THEN <<"-">> ELSE <<>>
    IN sign \o Itoa(mag \div 10)
            \o (IF mag % 10 = 0 THEN <<>> ELSE <<".", Digits[(mag % 10) + 1]>>)

RECURSIVE Sprint(_)
\* fmt.Sprint(v) of one operand
Sprint(v) ==
    CASE v.k = "nil" -> <<"<", "n", "i", "l", ">">>
      [] v.k = "string" -> v.s
      [] v.k \in {"int", "int64"} -> Itoa(v.n)
      [] v.k = "bool" -> IF v.b THEN <<"t", "r", "u", "e">> ELSE <<"f", "a", "l", "s", "e">>
      [] v.k = "float64" -> FormatFloat(v.tenths)
      [] v.k = "array" ->
            LET RECURSIVE Join(_)
                Join(i) == IF i > Len(v.a) THEN <<>>
                           ELSE (IF i > 1 THEN <<" ">> ELSE <<>>) \o Sprint(v.a[i]) \o Join(i + 1)
            IN <<"[">> \o Join(1) \o <<"]">>

(***************************************************************************)
(* internal/proto: conversions.                                            *)
(***************************************************************************)
ToInt(v) ==
    CASE v.k = "int" -> v.n
      [] v.k = "int64" -> v.n
      [] v.k = "float64" -> TruncTenths(v.tenths)
      [] v.k = "string" -> ParseInt(v.s)
      [] OTHER -> 0

ToInt64(v) ==
    CASE v.k = "int" -> v.n
      [] v.k = "int64" -> v.n
      [] v.k = "float64" -> TruncTenths(v.tenths)
      [] v.k = "string" -> ParseInt(v.s)
      [] OTHER -> 0

\* ToFloat64 keeping only the whole part of a double
ToFloat64Truncating(v) ==
    CASE v.k = "float64" -> TruncTenths(v.tenths) * 10
      [] v.k \in {"int", "int64"} -> v.n * 10
      [] OTHER -> 0

\* the float64 result in tenths
ToFloat64(v) ==
    CASE v.k = "float64" -> v.tenths
      [] v.k = "int" -> v.n * 10
      [] v.k = "int64" -> v.n * 10
      [] v.k = "string" -> ParseFloat(v.s)
      [] OTHER -> 0

ToString(v) ==
    IF v.k = "nil" THEN <<>>
    ELSE IF v.k = "string" THEN v.s
    ELSE Sprint(v)

\* ([]string, error): the strings of a []interface{}, an error for anything else
toStringSlice(v) ==
    IF ~IsArr(v) THEN [strs |-> <<>>, err |-> Errorf("expected array", 0)]
    ELSE [strs |-> [i \in 1..Len(v.a) |-> ToString(v.a[i])], err |-> NoError]

(***************************************************************************)
(* internal/proto: the reply splitter.                                     *)
(***************************************************************************)
ValueTypeUnknown == 0
ValueTypeNull == 1
ValueTypeString == 2
ValueTypeInteger == 3
ValueTypeBoolean == 4
ValueTypeDouble == 5
ValueTypeArray == 6
ValueTypeEdge == 7
ValueTypeNode == 8
ValueTypePath == 9
ValueTypeMap == 10
ValueTypePoint == 11

\* a nil pointer or nil slice of the named Go type
TypedNil(t) == [k |-> "typednil", t |-> t]
NilRawResult == TypedNil("*RawResult")

\* RawResult: Headers and Data are NilV (a nil slice) or an array value
RawResult(h, d, m) == [k |-> "RawResult", Headers |-> h, Data |-> d, Metadata |-> m]

\* ParseResult taking every reply of three elements or more for a full result
ParseResultAtLeastThree(result) ==
    IF ~IsArr(result)
    THEN [rr |-> NilRawResult, err |-> Errorf("unexpected query result format", 0)]
    ELSE IF Len(result.a) = 1 /\ IsArr(result.a[1])
    THEN [rr |-> RawResult(NilV, NilV, toStringSlice(result.a[1]).strs), err |-> NoError]
    ELSE IF Len(result.a) >= 3 /\ IsArr(result.a[3])
    THEN [rr |-> RawResult(IF IsArr(result.a[1]) THEN result.a[1] ELSE NilV,
                           IF IsArr(result.a[2]) THEN result.a[2] ELSE NilV,
                           toStringSlice(result.a[3]).strs),
          err |-> NoError]
    ELSE [rr |-> NilRawResult, err |-> Errorf("unexpected query result length", 0)]

\* ParseResult that asks headers and data to be sequences as well
ParseResultStrict(result) ==
    IF ~IsArr(result)
    THEN [rr |-> NilRawResult, err |-> Errorf("unexpected query result format", 0)]
    ELSE IF Len(result.a) = 1 /\ IsArr(result.a[1])
    THEN [rr |-> RawResult(NilV, NilV, toStringSlice(result.a[1]).strs), err |-> NoError]
    ELSE IF Len(result.a) = 3 /\ \A i \in 1..3 : IsArr(result.a[i])
    THEN [rr |-> RawResult(result.a[1], result.a[2], toStringSlice(result.a[3]).strs),
          err |-> NoError]
    ELSE [rr |-> NilRawResult, err |-> Errorf("unexpected query result length", 0)]

\* (*RawResult, error)
ParseResult(result) ==
    IF ~IsArr(result)
    THEN [rr |-> NilRawResult, err |-> Errorf("unexpected query result format", 0)]
    ELSE LET arr == result.a
         IN CASE Len(arr) = 1 ->
                   LET md == toStringSlice(arr[1])
                   IN IF md.err # NoError
                      THEN [rr |-> NilRawResult, err |-> md.err]
                      ELSE [rr |-> RawResult(NilV, NilV, md.strs), err |-> NoError]
              [] Len(arr) = 3 ->
                   LET headers == IF IsArr(arr[1]) THEN arr[1] ELSE NilV
                       data == IF IsArr(arr[2]) THEN arr[2] ELSE NilV
                       md == toStringSlice(arr[3])
                   IN IF md.err # NoError
                      THEN [rr |-> NilRawResult, err |-> md.err]
                      ELSE [rr |-> RawResult(headers, data, md.strs), err |-> NoError]
              [] OTHER ->
                   [rr |-> NilRawResult,
                    err |-> Errorf("unexpected query result length", Len(arr))]

(***************************************************************************)
(* graph.go: the list of names in the reply of a catalog lookup.           *)
(***************************************************************************)
\* a []string: isNil tells the nil slice from a slice that holds strs
NilStrings == [isNil |-> TRUE, strs |-> <<>>]
Strings(ss) == [isNil |-> FALSE, strs |-> ss]

RECURSIVE extractRows(_, _)
\* the loop of extractStringList over data[i..]: rows that are malformed add nothing
extractRows(data, i) ==
    IF i > Len(data) THEN <<>>
    ELSE LET row == data[i]
             cellOk == /\ IsArr(row) /\ Len(row.a) > 0
                       /\ IsArr(row.a[1]) /\ Len(row.a[1].a) >= 2
                       /\ row.a[1].a[2].k = "string"
         IN (IF cellOk THEN <<row.a[1].a[2].s>> ELSE <<>>) \o extractRows(data, i + 1)

extractStringList(result) ==
    IF ~IsArr(result) \/ Len(result.a) < 2 THEN NilStrings
    ELSE IF ~IsArr(result.a[2]) THEN NilStrings
    ELSE LET ss == extractRows(result.a[2].a, 1)
         \* append never ran: the slice declared by var is still nil
         IN IF ss = <<>> THEN NilStrings ELSE Strings(ss)

(***************************************************************************)
(* result.go: the dictionary cache and the typed value decoder.            *)
(*                                                                         *)
(* A parser p is [labels, relTypes, propertyKeys], three sequences of      *)
(* strings; the code reads a table only through len and index, so the nil  *)
(* table of a new parser is the empty sequence.  Go indexes from 0, the    *)
(* sequences here from 1.  An index expression out of range is a run-time  *)
(* panic: PanicV stands for it and ends the decoding it occurs in.         *)
(***************************************************************************)
newResultParser == [labels |-> <<>>, relTypes |-> <<>>, propertyKeys |-> <<>>]

PanicV == [k |-> "panic"]
NilNode == TypedNil("*Node")
NilEdge == TypedNil("*Edge")
NilPath == TypedNil("*Path")
NilPoint == TypedNil("*Point")
NilMap == TypedNil("map[string]interface {}")
NilSlice == TypedNil("[]interface {}")

\* map[string]interface{}: m is a function from its keys
MapV(m) == [k |-> "map", m |-> m]
EmptyMap == MapV([x \in {} |-> NilV])
MapPut(mv, key, val) ==
    MapV([x \in (DOMAIN mv.m) \cup {key} |-> IF x = key THEN val ELSE mv.m[x]])

\* a loop that ran to its end with result v (PanicV when it did not)
Ok(v) == [k |-> "ok", v |-> v]

\* the code that follows the evaluation of v: a panic in v skips it
Then(v, F(_)) == IF v = PanicV THEN PanicV ELSE F(v)

LabelPrefix == <<"l", "a", "b", "e", "l", "_">>
TypePrefix == <<"t", "y", "p", "e", "_">>
PropPrefix == <<"p", "r", "o", "p", "_">>
ColumnPrefix == <<"c", "o", "l", "u", "m", "n", "_">>

\* if idx < len(table) { table[idx] } else { Sprintf(prefix+"%d", idx) }
resolveIndex(table, prefix, idx) ==
    IF idx < Len(table)
    THEN (IF idx < 0 THEN PanicV ELSE StrV(table[idx + 1]))
    ELSE StrV(prefix \o Itoa(idx))

resolveLabel(p, idx) == resolveIndex(p.labels, LabelPrefix, idx)
resolveRelType(p, idx) == resolveIndex(p.relTypes, TypePrefix, idx)
resolvePropertyKey(p, idx) == resolveIndex(p.propertyKeys, PropPrefix, idx)

IsTagged(v) == IsArr(v) /\ Len(v.a) >= 2

RECURSIVE parseValue(_, _, _)
RECURSIVE parseArray(_, _)
RECURSIVE parseNode(_, _)
RECURSIVE parseEdge(_, _)
RECURSIVE parsePath(_, _)
RECURSIVE parseMap(_, _)
RECURSIVE parseProperties(_, _)

\* the loop of parseProperties over props[i..], result so far in acc
RECURSIVE propertiesFrom(_, _, _, _)
propertiesFrom(p, props, i, acc) ==
    IF i > Len(props) THEN acc
    ELSE LET prop == props[i]
         IN IF ~IsArr(prop) \/ Len(prop.a) < 3
            THEN propertiesFrom(p, props, i + 1, acc)
            ELSE Then(resolvePropertyKey(p, ToInt(prop.a[1])), LAMBDA key :
                 Then(parseValue(p, ToInt(prop.a[2]), prop.a[3]), LAMBDA val :
                 propertiesFrom(p, props, i + 1, MapPut(acc, key.s, val))))

parseProperties(p, props) == propertiesFrom(p, props, 1, EmptyMap)

\* the label loop of parseNode over labels[i..]
RECURSIVE labelsFrom(_, _, _)
labelsFrom(p, labels, i) ==
    IF i > Len(labels) THEN Ok(<<>>)
    ELSE Then(resolveLabel(p, ToInt(labels[i])), LAMBDA name :
         Then(labelsFrom(p, labels, i + 1), LAMBDA rest :
         Ok(<<name.s>> \o rest.v)))

parseNode(p, value) ==
    IF ~IsArr(value) \/ Len(value.a) < 3 THEN NilNode
    ELSE LET arr == value.a
         IN Then(IF IsArr(arr[2]) THEN labelsFrom(p, arr[2].a, 1) ELSE Ok(<<>>),
                 LAMBDA labels :
            Then(IF IsArr(arr[3]) THEN parseProperties(p, arr[3].a) ELSE EmptyMap,
                 LAMBDA props :
            [k |-> "Node", ID |-> ToInt64(arr[1]), Labels |-> labels.v,
             Properties |-> props]))

parseEdge(p, value) ==
    IF ~IsArr(value) \/ Len(value.a) < 5 THEN NilEdge
    ELSE LET arr == value.a
         IN Then(resolveRelType(p, ToInt(arr[2])), LAMBDA relType :
            Then(IF IsArr(arr[5]) THEN parseProperties(p, arr[5].a) ELSE EmptyMap,
                 LAMBDA props :
            [k |-> "Edge", ID |-> ToInt64(arr[1]), RelationshipType |-> relType.s,
             SourceID |-> ToInt64(arr[3]), DestinationID |-> ToInt64(arr[4]),
             Properties |-> props]))

\* the item of a tagged pair, or the item itself
RECURSIVE parseItem(_, _)
parseItem(p, item) ==
    IF IsTagged(item) THEN parseValue(p, ToInt(item.a[1]), item.a[2]) ELSE item

RECURSIVE arrayFrom(_, _, _)
arrayFrom(p, arr, i) ==
    IF i > Len(arr) THEN ArrV(<<>>)
    ELSE Then(parseItem(p, arr[i]), LAMBDA v :
         Then(arrayFrom(p, arr, i + 1), LAMBDA rest :
         ArrV(<<v>> \o rest.a)))

parseArray(p, value) ==
    IF ~IsArr(value) THEN NilSlice
    ELSE arrayFrom(p, value.a, 1)

\* the items of [ArrayType, [...items]]; NilV is the nil slice
unwrapArray(wrapper) ==
    IF ~IsArr(wrapper) \/ Len(wrapper.a) < 2 THEN NilV
    ELSE IF IsArr(wrapper.a[2]) THEN wrapper.a[2] ELSE NilV

\* the data of [Type, data]; NilV is the nil interface
unwrapTypedValue(typed) ==
    IF ~IsArr(typed) \/ Len(typed.a) < 2 THEN NilV ELSE typed.a[2]

\* the loop of parsePathNodes (kind "Node") and parsePathEdges (kind "Edge")
RECURSIVE pathItemsFrom(_, _, _, _)
pathItemsFrom(p, kind, items, i) ==
    IF i > Len(items) THEN Ok(<<>>)
    ELSE Then(unwrapTypedValue(items[i]), LAMBDA data :
         Then(IF data = NilV THEN NilV
              ELSE IF kind = "Node" THEN parseNode(p, data) ELSE parseEdge(p, data),
              LAMBDA x :
         Then(pathItemsFrom(p, kind, items, i + 1), LAMBDA rest :
         IF x \in {NilV, NilNode, NilEdge} THEN rest ELSE Ok(<<x>> \o rest.v))))

parsePathNodes(p, wrapper) ==
    Then(unwrapArray(wrapper), LAMBDA items :
    IF items = NilV THEN Ok(<<>>) ELSE pathItemsFrom(p, "Node", items.a, 1))

parsePathEdges(p, wrapper) ==
    Then(unwrapArray(wrapper), LAMBDA items :
    IF items = NilV THEN Ok(<<>>) ELSE pathItemsFrom(p, "Edge", items.a, 1))

parsePath(p, value) ==
    IF ~IsArr(value) \/ Len(value.a) < 2 THEN NilPath
    ELSE Then(parsePathNodes(p, value.a[1]), LAMBDA nodes :
         Then(parsePathEdges(p, value.a[2]), LAMBDA edges :
         [k |-> "Path", Nodes |-> nodes.v, Edges |-> edges.v]))

\* the loop of parseMap: for i := 0; i < len(arr)-1; i += 2 (i from 1 here)
RECURSIVE mapFrom(_, _, _, _)
\* the loop of parseMap looking the key up in the property keys of the cache
mapFromResolvingKeys(p, arr, i, acc) ==
    IF i > Len(arr) - 1 THEN acc
    ELSE Then(parseItem(p, arr[i + 1]), LAMBDA v :
         mapFrom(p, arr, i + 2, MapPut(acc, resolvePropertyKey(p, ToInt(arr[i])).s, v)))

mapFrom(p, arr, i, acc) ==
    IF i > Len(arr) - 1 THEN acc
    ELSE Then(parseItem(p, arr[i + 1]), LAMBDA v :
         mapFrom(p, arr, i + 2, MapPut(acc, ToString(arr[i]), v)))

parseMap(p, value) ==
    IF ~IsArr(value) THEN NilMap
    ELSE mapFrom(p, value.a, 1, EmptyMap)

parsePoint(value) ==
    IF ~IsArr(value) \/ Len(value.a) < 2 THEN NilPoint
    ELSE [k |-> "Point", Latitude |-> ToFloat64(value.a[1]),
          Longitude |-> ToFloat64(value.a[2])]

\* parseValue decoding a payload of an unknown type as a string
parseValueUnknownAsString(p, valueType, value) ==
    IF valueType = ValueTypeNull THEN NilV ELSE StrV(ToString(value))

parseValue(p, valueType, value) ==
    CASE valueType = ValueTypeNull -> NilV
      [] valueType = ValueTypeString -> StrV(ToString(value))
      [] valueType = ValueTypeInteger -> Int64V(ToInt64(value))
      [] valueType = ValueTypeBoolean ->
            IF value.k = "bool" THEN value
            ELSE BoolV(ToString(value) = <<"t", "r", "u", "e">>)
      [] valueType = ValueTypeDouble -> FloatV(ToFloat64(value))
      [] valueType = ValueTypeArray -> parseArray(p, value)
      [] valueType = ValueTypeNode -> parseNode(p, value)
      [] valueType = ValueTypeEdge -> parseEdge(p, value)
      [] valueType = ValueTypePath -> parsePath(p, value)
      [] valueType = ValueTypeMap -> parseMap(p, value)
      [] valueType = ValueTypePoint -> parsePoint(value)
      [] OTHER -> value

(***************************************************************************)
(* result.go: the result assembler.                                        *)
(***************************************************************************)
Header(t, name) == [Type |-> t, Name |-> name]

\* the loop of parseRow over row[i..], result so far in acc
RECURSIVE rowFrom(_, _, _, _, _)
rowFrom(p, row, headers, i, acc) ==
    IF i > Len(row) THEN acc
    ELSE Then(parseItem(p, row[i]), LAMBDA v :
         rowFrom(p, row, headers, i + 1,
                 MapPut(acc, IF i - 1 < Len(headers) THEN headers[i].Name
                             ELSE ColumnPrefix \o Itoa(i - 1), v)))

parseRow(p, row, headers) == rowFrom(p, row, headers, 1, EmptyMap)

\* result.Headers of parseResult: nil (the empty sequence) without raw headers
parseHeaders(raw) ==
    IF raw.Headers = NilV THEN <<>>
    ELSE [i \in 1..Len(raw.Headers.a) |->
            LET h == raw.Headers.a[i]
            IN IF IsTagged(h) THEN Header(ToInt(h.a[1]), ToString(h.a[2]))
               ELSE Header(0, <<>>)]

\* result.Data[i] of parseResult: the nil map for a row that is no sequence
parseDataRow(p, raw, i) ==
    IF IsArr(raw.Data.a[i]) THEN parseRow(p, raw.Data.a[i].a, parseHeaders(raw))
    ELSE NilMap

RECURSIVE dataFrom(_, _, _)
dataFrom(p, raw, i) ==
    IF i > Len(raw.Data.a) THEN Ok(<<>>)
    ELSE Then(parseDataRow(p, raw, i), LAMBDA r :
         Then(dataFrom(p, raw, i + 1), LAMBDA rest :
         Ok(<<r>> \o rest.v)))

QueryResult(h, d, m) == [k |-> "QueryResult", Headers |-> h, Data |-> d, Metadata |-> m]
NilQueryResult == TypedNil("*QueryResult")

\* parseResult: the *QueryResult (the error it returns is always nil), or PanicV
parseResult(p, raw) ==
    Then(IF raw.Data = NilV THEN Ok(<<>>) ELSE dataFrom(p, raw, 1), LAMBDA data :
    QueryResult(parseHeaders(raw), data.v, raw.Metadata))

\* updateMetadata: an argument that is the nil slice leaves its table alone
updateMetadata(p, labels, relTypes, propertyKeys) ==
    [labels |-> IF ~labels.isNil THEN labels.strs ELSE p.labels,
     relTypes |-> IF ~relTypes.isNil THEN relTypes.strs ELSE p.relTypes,
     propertyKeys |-> IF ~propertyKeys.isNil THEN propertyKeys.strs ELSE p.propertyKeys]

(***************************************************************************)
(* The graph handle: one Graph shared by the goroutines, and the server    *)
(* behind its transport.                                                   *)
(***************************************************************************)
VARIABLES
    srv,        \* the server's catalog of the graph: labels, relTypes, propertyKeys
    parser,     \* g.parser: the dictionary cache of the handle
    mu,         \* g.mu: writer is the goroutine in Lock (0: none), readers hold RLock
    pc,         \* where each goroutine is in execute
    cmd,        \* the command of the goroutine's call, "" before its first
    err,        \* err of the query's round trip (graph.go:60)
    reply,      \* result of the query's round trip (graph.go:60)
    raw,        \* the RawResult made of it (graph.go:68)
    rows,       \* result.Data decoded so far (result.go:61)
    res,        \* result and err of the catalog lookup just made
    lookups,    \* the commands the call has sent in updateMetadataFromResult
    ret,        \* what the goroutine's last call returned
    calls,      \* calls started
    fn, arg, out    \* a codec function applied on its own: which, its input, its output

vars == <<srv, parser, mu, pc, cmd, err, reply, raw, rows, res, lookups, ret, calls,
          fn, arg, out>>

\* the goroutines that share the handle
Goroutines == {1, 2}

CmdQuery == "GRAPH.QUERY"
CmdROQuery == "GRAPH.RO_QUERY"

\* the names a server may hold
LabelNames == {<<"P">>, <<"E">>}
RelTypeNames == {<<"K">>}
PropertyKeyNames == {<<"n">>}

\* the sequences without repetition over S, of at most MaxNames names, that extend s
RECURSIVE Extensions(_, _)
Extensions(s, S) ==
    {s} \cup (IF Len(s) >= MaxNames THEN {}
             ELSE UNION {Extensions(Append(s, x), S) : x \in S \ {s[i] : i \in 1..Len(s)}})

EmptyCatalog == [labels |-> <<>>, relTypes |-> <<>>, propertyKeys |-> <<>>]

\* the catalogs a write query may leave: the server only appends names
Grown(c) ==
    {[labels |-> l, relTypes |-> r, propertyKeys |-> k] :
        l \in Extensions(c.labels, LabelNames),
        r \in Extensions(c.relTypes, RelTypeNames),
        k \in Extensions(c.propertyKeys, PropertyKeyNames)}

Meta == ArrV(<<StrV(<<"m">>)>>)
Tagged(code, v) == ArrV(<<Int64V(code), v>>)

\* the property triples the server sends for an entity: its first key, if any
PropsOf(c) ==
    IF c.propertyKeys = <<>> THEN ArrV(<<>>)
    ELSE ArrV(<<ArrV(<<Int64V(0), Int64V(ValueTypeString), StrV(<<"v">>)>>)>>)

\* compact cells: a node with label index li, an edge with type index ti
NodeCell(c, li) ==
    Tagged(ValueTypeNode, ArrV(<<Int64V(5), ArrV(<<Int64V(li)>>), PropsOf(c)>>))
EdgeCell(c, ti) ==
    Tagged(ValueTypeEdge,
           ArrV(<<Int64V(7), Int64V(ti), Int64V(5), Int64V(6), PropsOf(c)>>))

HeaderRow == ArrV(<<ArrV(<<Int64V(1), StrV(<<"x">>)>>)>>)
FullReply(rws) == ArrV(<<HeaderRow, ArrV(rws), Meta>>)

\* the replies to a query that the server may send with catalog c: the indexes
\* in a reply are indexes of c
GoodReplies(c) ==
    LET nodes == {NodeCell(c, li) : li \in 0..(Len(c.labels) - 1)}
        edges == {EdgeCell(c, ti) : ti \in 0..(Len(c.relTypes) - 1)}
    IN {ArrV(<<Meta>>)}
       \cup {FullReply(<<ArrV(<<x>>)>>) : x \in nodes}
       \cup {FullReply(<<ArrV(<<x>>), ArrV(<<y>>)>>) : x \in nodes, y \in edges}

\* replies that are no compact result set: no sequence, a sequence of length
\* 2, a sequence of length 1 whose metadata is null
BadReplies == {StrV(<<"O", "K">>), ArrV(<<Meta, Meta>>), ArrV(<<NilV>>)}

\* the reply of CALL db.labels() and its like: one row [[String, name]] per name
LookupReply(names) ==
    ArrV(<<HeaderRow,
           ArrV([i \in 1..Len(names) |-> ArrV(<<Tagged(ValueTypeString, StrV(names[i]))>>)]),
           Meta>>)

ErrIO == Errorf("connection error", 0)
ErrSyntax == Errorf("ERR syntax error", 0)
ErrReadOnly == Errorf("ERR write in read-only query", 0)
TransportErrors == {ErrIO, ErrSyntax, ErrReadOnly}

QueryTexts == {"create", "match", "invalid"}

\* client.Do(...).Result() of a query: the outcomes [err, result, srv] of the server
\* executing text q sent as command c
DoQuery(c, q) ==
    {[err |-> ErrIO, result |-> NilV, srv |-> srv]}
    \cup (CASE q = "invalid" -> {[err |-> ErrSyntax, result |-> NilV, srv |-> srv]}
            [] q = "create" /\ c = CmdROQuery ->
                  {[err |-> ErrReadOnly, result |-> NilV, srv |-> srv]}
            [] q = "create" /\ c = CmdQuery ->
                  UNION {{[err |-> NoError, result |-> r, srv |-> s] : r \in GoodReplies(s)} :
                            s \in Grown(srv)}
            [] OTHER ->
                  {[err |-> NoError, result |-> r, srv |-> srv] :
                      r \in GoodReplies(srv) \cup BadReplies})

NoReturn == [k |-> "none"]
Return(result, e) == [k |-> "return", result |-> result, err |-> e]

\* g.name
GraphName == "g"

LookupLabelsArgs == <<"GRAPH.RO_QUERY", GraphName, "CALL db.labels()", "--compact">>
LookupRelTypesArgs ==
    <<"GRAPH.RO_QUERY", GraphName, "CALL db.relationshipTypes()", "--compact">>
LookupPropertyKeysArgs ==
    <<"GRAPH.RO_QUERY", GraphName, "CALL db.propertyKeys()", "--compact">>

NoRes == [k |-> "none"]
Res(result, e) == [k |-> "res", result |-> result, err |-> e]

\* a handle between calls, whatever its cache holds
IdleHandle ==
    /\ srv = EmptyCatalog
    /\ mu = [writer |-> 0, readers |-> {}]
    /\ pc = [t \in Goroutines |-> "idle"]
    /\ cmd = [t \in Goroutines |-> ""]
    /\ err = [t \in Goroutines |-> NoError]
    /\ reply = [t \in Goroutines |-> NilV]
    /\ raw = [t \in Goroutines |-> NilRawResult]
    /\ rows = [t \in Goroutines |-> <<>>]
    /\ res = NoRes
    /\ lookups = [t \in Goroutines |-> <<>>]
    /\ ret = [t \in Goroutines |-> NoReturn]
    /\ calls = 0

\* SelectGraph: a new handle with the cache of newResultParser
HandleInit ==
    /\ IdleHandle
    /\ parser = newResultParser

NoOut == [k |-> "none"]

Init ==
    /\ HandleInit
    /\ fn = "none" /\ arg = NilV /\ out = NoOut

\* execute changed in two places: the refresh is left out when skip holds (a reply
\* that splits goes straight to decoding), and an error e of the round trip is
\* returned as failure(e)
executeWith(t, c, skip, failure(_)) ==
    /\ pc[t] = "idle"
    /\ calls < MaxCalls
    /\ calls' = calls + 1
    /\ cmd' = [cmd EXCEPT ![t] = c]
    /\ lookups' = [lookups EXCEPT ![t] = <<>>]
    /\ rows' = [rows EXCEPT ![t] = <<>>]
    /\ \E q \in QueryTexts : \E o \in DoQuery(c, q) :
          /\ srv' = o.srv
          /\ err' = [err EXCEPT ![t] = o.err]
          /\ IF o.err # NoError
             THEN /\ ret' = [ret EXCEPT ![t] = Return(NilQueryResult, failure(o.err))]
                  /\ reply' = [reply EXCEPT ![t] = NilV]
                  /\ raw' = [raw EXCEPT ![t] = NilRawResult]
                  /\ pc' = pc
             ELSE /\ ret' = [ret EXCEPT ![t] = NoReturn]
                  /\ IF ~skip \/ ParseResult(o.result).err # NoError
                     THEN /\ reply' = [reply EXCEPT ![t] = o.result]
                          /\ raw' = [raw EXCEPT ![t] = NilRawResult]
                          /\ pc' = [pc EXCEPT ![t] = "lock"]
                     ELSE /\ reply' = [reply EXCEPT ![t] = NilV]
                          /\ raw' = [raw EXCEPT ![t] = ParseResult(o.result).rr]
                          /\ pc' = [pc EXCEPT ![t] = "rlock"]
    /\ UNCHANGED <<parser, mu, res, fn, arg, out>>

\* execute without the refresh
executeNoRefresh(t, c) == executeWith(t, c, TRUE, LAMBDA e : e)

\* execute with the refresh after write queries only
executeRefreshOnWrite(t, c) == executeWith(t, c, c = CmdROQuery, LAMBDA e : e)

\* execute that wraps the error of the round trip
executeWrappingError(t, c) ==
    executeWith(t, c, FALSE, LAMBDA e : Errorf("query failed: " \o e.msg, 0))

\* execute that splits the reply before the refresh and returns the error of
\* a reply that does not split at once
executeSplittingFirst(t, c) ==
    /\ pc[t] = "idle"
    /\ calls < MaxCalls
    /\ calls' = calls + 1
    /\ cmd' = [cmd EXCEPT ![t] = c]
    /\ lookups' = [lookups EXCEPT ![t] = <<>>]
    /\ rows' = [rows EXCEPT ![t] = <<>>]
    /\ raw' = [raw EXCEPT ![t] = NilRawResult]
    /\ \E q \in QueryTexts : \E o \in DoQuery(c, q) : \E r \in {ParseResult(o.result)} :
          /\ srv' = o.srv
          /\ err' = [err EXCEPT ![t] = o.err]
          /\ IF o.err # NoError \/ r.err # NoError
             THEN /\ ret' = [ret EXCEPT ![t] =
                                Return(NilQueryResult, IF o.err # NoError THEN o.err ELSE r.err)]
                  /\ reply' = [reply EXCEPT ![t] = NilV]
                  /\ pc' = pc
             ELSE /\ ret' = [ret EXCEPT ![t] = NoReturn]
                  /\ reply' = [reply EXCEPT ![t] = o.result]
                  /\ pc' = [pc EXCEPT ![t] = "lock"]
    /\ UNCHANGED <<parser, mu, res, fn, arg, out>>

\* execute, lines 46-66: the query's round trip; an error is returned as it is,
\* a result is kept and the refresh comes next
execute(t, c) ==
    /\ pc[t] = "idle"
    /\ calls < MaxCalls
    /\ calls' = calls + 1
    /\ cmd' = [cmd EXCEPT ![t] = c]
    /\ lookups' = [lookups EXCEPT ![t] = <<>>]
    /\ rows' = [rows EXCEPT ![t] = <<>>]
    /\ raw' = [raw EXCEPT ![t] = NilRawResult]
    /\ \E q \in QueryTexts : \E o \in DoQuery(c, q) :
          /\ srv' = o.srv
          /\ err' = [err EXCEPT ![t] = o.err]
          /\ IF o.err # NoError
             THEN /\ ret' = [ret EXCEPT ![t] = Return(NilQueryResult, o.err)]
                  /\ reply' = [reply EXCEPT ![t] = NilV]
                  /\ pc' = pc
             ELSE /\ ret' = [ret EXCEPT ![t] = NoReturn]
                  /\ reply' = [reply EXCEPT ![t] = o.result]
                  /\ pc' = [pc EXCEPT ![t] = "lock"]
    /\ UNCHANGED <<parser, mu, res, fn, arg, out>>

Query(t) == execute(t, CmdQuery)

ROQuery(t) == execute(t, CmdROQuery)

\* Lock that does not wait for the readers to leave
LockIgnoringReaders(t) ==
    /\ pc[t] = "lock"
    /\ mu.writer = 0
    /\ mu' = [mu EXCEPT !.writer = t]
    /\ pc' = [pc EXCEPT ![t] = "labels"]
    /\ UNCHANGED <<srv, parser, cmd, err, reply, raw, rows, res, lookups, ret, calls,
                   fn, arg, out>>

\* g.mu.Lock(): one writer at a time enters; it keeps new readers out from here
\* on and goes on once the readers that hold the lock have left
Lock(t) ==
    /\ pc[t] = "lock"
    /\ mu.writer = 0
    /\ mu' = [mu EXCEPT !.writer = t]
    /\ pc' = [pc EXCEPT ![t] = IF mu.readers = {} THEN "labels" ELSE "lockWait"]
    /\ UNCHANGED <<srv, parser, cmd, err, reply, raw, rows, res, lookups, ret, calls,
                   fn, arg, out>>

LockWait(t) ==
    /\ pc[t] = "lockWait"
    /\ mu.readers = {}
    /\ pc' = [pc EXCEPT ![t] = "labels"]
    /\ UNCHANGED <<srv, parser, mu, cmd, err, reply, raw, rows, res, lookups, ret, calls,
                   fn, arg, out>>

\* the round trip of one catalog lookup, with outcome o
Lookup(t, at, args, o, to) ==
    /\ pc[t] = at
    /\ res' = o
    /\ lookups' = [lookups EXCEPT ![t] = Append(@, args)]
    /\ pc' = [pc EXCEPT ![t] = to]
    /\ UNCHANGED <<srv, parser, mu, cmd, err, reply, raw, rows, ret, calls, fn, arg, out>>

\* the table that follows a lookup's result and error
Refreshed(table) ==
    IF res.err = NoError
    THEN LET names == extractStringList(res.result)
         IN IF ~names.isNil THEN names.strs ELSE table
    ELSE table

\* the labels lookup sending the command of the relationship types lookup
LookupLabelsWrongList(t) ==
    Lookup(t, "labels", LookupLabelsArgs, Res(LookupReply(srv.relTypes), NoError),
           "setLabels")

LookupLabels(t) ==
    Lookup(t, "labels", LookupLabelsArgs, Res(LookupReply(srv.labels), NoError),
           "setLabels")

SetLabels(t) ==
    /\ pc[t] = "setLabels"
    /\ parser' = [parser EXCEPT !.labels = Refreshed(@)]
    /\ res' = NoRes
    /\ pc' = [pc EXCEPT ![t] = "relTypes"]
    /\ UNCHANGED <<srv, mu, cmd, err, reply, raw, rows, lookups, ret, calls, fn, arg, out>>

LookupRelTypes(t) ==
    Lookup(t, "relTypes", LookupRelTypesArgs, Res(LookupReply(srv.relTypes), NoError),
           "setRelTypes")

SetRelTypes(t) ==
    /\ pc[t] = "setRelTypes"
    /\ parser' = [parser EXCEPT !.relTypes = Refreshed(@)]
    /\ res' = NoRes
    /\ pc' = [pc EXCEPT ![t] = "propertyKeys"]
    /\ UNCHANGED <<srv, mu, cmd, err, reply, raw, rows, lookups, ret, calls, fn, arg, out>>

LookupPropertyKeys(t) ==
    Lookup(t, "propertyKeys", LookupPropertyKeysArgs,
           Res(LookupReply(srv.propertyKeys), NoError), "setPropertyKeys")

SetPropertyKeys(t) ==
    /\ pc[t] = "setPropertyKeys"
    /\ parser' = [parser EXCEPT !.propertyKeys = Refreshed(@)]
    /\ res' = NoRes
    /\ pc' = [pc EXCEPT ![t] = "unlock"]
    /\ UNCHANGED <<srv, mu, cmd, err, reply, raw, rows, lookups, ret, calls, fn, arg, out>>

\* the deferred g.mu.Unlock() of updateMetadataFromResult, then execute, lines
\* 68-71: a reply that does not split is returned as its error
Unlock(t) ==
    /\ pc[t] = "unlock"
    /\ mu' = [mu EXCEPT !.writer = 0]
    /\ LET r == ParseResult(reply[t])
       IN IF r.err # NoError
          THEN /\ ret' = [ret EXCEPT ![t] = Return(NilQueryResult, r.err)]
               /\ pc' = [pc EXCEPT ![t] = "idle"]
               /\ raw' = raw
          ELSE /\ raw' = [raw EXCEPT ![t] = r.rr]
               /\ pc' = [pc EXCEPT ![t] = "rlock"]
               /\ ret' = ret
    /\ reply' = [reply EXCEPT ![t] = NilV]
    /\ UNCHANGED <<srv, parser, cmd, err, rows, res, lookups, calls, fn, arg, out>>

\* RLock that does not wait for the writer to leave
RLockIgnoringWriter(t) ==
    /\ pc[t] = "rlock"
    /\ mu' = [mu EXCEPT !.readers = @ \cup {t}]
    /\ pc' = [pc EXCEPT ![t] = "decode"]
    /\ UNCHANGED <<srv, parser, cmd, err, reply, raw, rows, res, lookups, ret, calls,
                   fn, arg, out>>

\* g.mu.RLock(): blocked while a writer is in Lock
RLock(t) ==
    /\ pc[t] = "rlock"
    /\ mu.writer = 0
    /\ mu' = [mu EXCEPT !.readers = @ \cup {t}]
    /\ pc' = [pc EXCEPT ![t] = "decode"]
    /\ UNCHANGED <<srv, parser, cmd, err, reply, raw, rows, res, lookups, ret, calls,
                   fn, arg, out>>

\* the rows of raw.Data still to decode
RowsLeft(t) == raw[t].Data # NilV /\ Len(rows[t]) < Len(raw[t].Data.a)

\* one turn of the loop of parseResult over raw.Data (result.go:61-65); a panic
\* unwinds through the deferred RUnlock
DecodeRow(t) ==
    /\ pc[t] = "decode"
    /\ RowsLeft(t)
    /\ \E r \in {parseDataRow(parser, raw[t], Len(rows[t]) + 1)} :
          IF r = PanicV
          THEN /\ pc' = [pc EXCEPT ![t] = "panic"]
               /\ mu' = [mu EXCEPT !.readers = @ \ {t}]
               /\ rows' = rows
          ELSE /\ rows' = [rows EXCEPT ![t] = Append(@, r)]
               /\ UNCHANGED <<pc, mu>>
    /\ UNCHANGED <<srv, parser, cmd, err, reply, raw, res, lookups, ret, calls, fn, arg,
                   out>>

\* execute returning the result with RUnlock not deferred and never called
ReturnResultNoRUnlock(t) ==
    /\ pc[t] = "decode"
    /\ ~RowsLeft(t)
    /\ ret' = [ret EXCEPT ![t] =
                  Return(QueryResult(parseHeaders(raw[t]), rows[t], raw[t].Metadata), NoError)]
    /\ pc' = [pc EXCEPT ![t] = "idle"]
    /\ raw' = [raw EXCEPT ![t] = NilRawResult]
    /\ rows' = [rows EXCEPT ![t] = <<>>]
    /\ UNCHANGED <<srv, parser, mu, cmd, err, reply, res, lookups, calls, fn, arg, out>>

\* parseResult returns, the deferred RUnlock runs, execute returns the result
ReturnResult(t) ==
    /\ pc[t] = "decode"
    /\ ~RowsLeft(t)
    /\ ret' = [ret EXCEPT ![t] =
                  Return(QueryResult(parseHeaders(raw[t]), rows[t], raw[t].Metadata), NoError)]
    /\ mu' = [mu EXCEPT !.readers = @ \ {t}]
    /\ pc' = [pc EXCEPT ![t] = "idle"]
    /\ raw' = [raw EXCEPT ![t] = NilRawResult]
    /\ rows' = [rows EXCEPT ![t] = <<>>]
    /\ UNCHANGED <<srv, parser, cmd, err, reply, res, lookups, calls, fn, arg, out>>

\* a catalog lookup whose round trip fails
LookupFails(t) ==
    \/ Lookup(t, "labels", LookupLabelsArgs, Res(NilV, ErrIO), "setLabels")
    \/ Lookup(t, "relTypes", LookupRelTypesArgs, Res(NilV, ErrIO), "setRelTypes")
    \/ Lookup(t, "propertyKeys", LookupPropertyKeysArgs, Res(NilV, ErrIO), "setPropertyKeys")

\* Graph.Delete: one command; the server drops the graph and its catalog
Delete(t) ==
    /\ pc[t] = "idle"
    /\ srv # EmptyCatalog
    /\ srv' = EmptyCatalog
    /\ UNCHANGED <<parser, mu, pc, cmd, err, reply, raw, rows, res, lookups, ret, calls,
                   fn, arg, out>>

\* the handle against a server that only appends names and answers every lookup
Next ==
    \E t \in Goroutines :
        \/ Query(t)
        \/ ROQuery(t)
        \/ Lock(t)
        \/ LockWait(t)
        \/ LookupLabels(t)
        \/ SetLabels(t)
        \/ LookupRelTypes(t)
        \/ SetRelTypes(t)
        \/ LookupPropertyKeys(t)
        \/ SetPropertyKeys(t)
        \/ Unlock(t)
        \/ RLock(t)
        \/ DecodeRow(t)
        \/ ReturnResult(t)

Spec == Init /\ [][Next]_vars

\* the steps of a call of goroutine t that has started
Progress(t) ==
    \/ Lock(t) \/ LockWait(t)
    \/ LookupLabels(t) \/ SetLabels(t)
    \/ LookupRelTypes(t) \/ SetRelTypes(t)
    \/ LookupPropertyKeys(t) \/ SetPropertyKeys(t)
    \/ Unlock(t) \/ RLock(t) \/ DecodeRow(t) \/ ReturnResult(t)

\* the scheduler runs every goroutine that can take a step, the transport
\* answers every command, and sync.RWMutex lets in every goroutine that waits
\* in Lock or RLock (a waiting writer keeps new readers out, Unlock wakes the
\* readers that wait before the next writer)
Fairness ==
    \A t \in Goroutines :
        /\ WF_vars(Progress(t))
        /\ SF_vars(Lock(t))
        /\ SF_vars(RLock(t))

SpecLive == Init /\ [][Next]_vars /\ Fairness

\* the handle when lookups may fail and the graph may be deleted and made anew
NextFaulty ==
    \/ Next
    \/ \E t \in Goroutines : LookupFails(t)
    \/ \E t \in Goroutines : Delete(t)

SpecFaulty == Init /\ [][NextFaulty]_vars

CmdDelete == "GRAPH.DELETE"
CmdCopy == "GRAPH.COPY"
CmdExplain == "GRAPH.EXPLAIN"
CmdProfile == "GRAPH.PROFILE"
CmdSlowLog == "GRAPH.SLOWLOG"
CmdMemory == "GRAPH.MEMORY"
CmdConstraintCreate == "GRAPH.CONSTRAINT CREATE"
CmdConstraintDrop == "GRAPH.CONSTRAINT DROP"

\* the commands of the methods that go to the transport without execute
AdminCommands ==
    {CmdDelete, CmdCopy, CmdExplain, CmdProfile, CmdSlowLog, CmdMemory,
     CmdConstraintCreate, CmdConstraintDrop}

\* what the methods that return a value return when the command succeeded
PlanReply == ArrV(<<StrV(<<"p">>)>>)

\* g.client.Do followed by a refresh of the labels from the server
DoRefreshing(t, command, after, result) ==
    /\ pc[t] = "idle"
    /\ calls < MaxCalls
    /\ calls' = calls + 1
    /\ cmd' = [cmd EXCEPT ![t] = command]
    /\ lookups' = [lookups EXCEPT ![t] = <<>>]
    /\ parser' = [parser EXCEPT !.labels = srv.labels]
    /\ \E e \in {NoError, ErrIO} :
          /\ err' = [err EXCEPT ![t] = e]
          /\ ret' = [ret EXCEPT ![t] = Return(IF e = NoError THEN result ELSE NilV, e)]
          /\ srv' \in (IF e = NoError THEN after ELSE {srv})
    /\ UNCHANGED <<mu, pc, reply, raw, rows, res, fn, arg, out>>

\* g.client.Do(ctx, command, g.name, ...) of a method that does nothing else:
\* one round trip, its error or its result returned; the server is left with
\* one of the catalogs of after when the command succeeded
Do(t, command, after, result) ==
    /\ pc[t] = "idle"
    /\ calls < MaxCalls
    /\ calls' = calls + 1
    /\ cmd' = [cmd EXCEPT ![t] = command]
    /\ lookups' = [lookups EXCEPT ![t] = <<>>]
    /\ \E e \in {NoError, ErrIO} :
          /\ err' = [err EXCEPT ![t] = e]
          /\ ret' = [ret EXCEPT ![t] = Return(IF e = NoError THEN result ELSE NilV, e)]
          /\ srv' \in (IF e = NoError THEN after ELSE {srv})
    /\ UNCHANGED <<parser, mu, pc, reply, raw, rows, res, fn, arg, out>>

\* Graph.Delete as a call of the handle
GraphDelete(t) == Do(t, CmdDelete, {EmptyCatalog}, NilV)

Copy(t) == Do(t, CmdCopy, {srv}, NilV)

Explain(t) == Do(t, CmdExplain, {srv}, PlanReply)

\* GRAPH.PROFILE runs the query: the server may hold new names after it
Profile(t) == Do(t, CmdProfile, Grown(srv), PlanReply)

SlowLog(t) == Do(t, CmdSlowLog, {srv}, ArrV(<<>>))

MemoryUsage(t) == Do(t, CmdMemory, {srv}, ArrV(<<>>))

ConstraintCreate(t) == Do(t, CmdConstraintCreate, {srv}, NilV)

ConstraintDrop(t) == Do(t, CmdConstraintDrop, {srv}, NilV)

\* the handle with all of its methods called by the goroutines
NextAdmin ==
    \/ Next
    \/ \E t \in Goroutines :
          \/ GraphDelete(t)
          \/ Copy(t)
          \/ Explain(t)
          \/ Profile(t)
          \/ SlowLog(t)
          \/ MemoryUsage(t)
          \/ ConstraintCreate(t)
          \/ ConstraintDrop(t)

SpecAdmin == Init /\ [][NextAdmin]_vars

(***************************************************************************)
(* internal/proto/args.go: the argument builders and the literal           *)
(* serializer.  A range over a map visits the keys in an order the runtime *)
(* picks anew for every loop, so an operator that ranges over a map is the *)
(* set of the results the call can return.                                 *)
(***************************************************************************)
\* strings.Replace(s, old, new, 1): the first occurrence only
ReplaceFirst(s, old, new) ==
    IF \E i \in DOMAIN s : s[i] = old
    THEN LET i == CHOOSE j \in DOMAIN s : s[j] = old /\ \A h \in 1..(j - 1) : s[h] # old
         IN SubSeq(s, 1, i - 1) \o new \o SubSeq(s, i + 1, Len(s))
    ELSE s

\* strings.ReplaceAll(s, old, new) for a one-character old
RECURSIVE ReplaceAll(_, _, _)
ReplaceAll(s, old, new) ==
    IF s = <<>> THEN <<>>
    ELSE (IF Head(s) = old THEN new ELSE <<Head(s)>>) \o ReplaceAll(Tail(s), old, new)

\* strings.Join(parts, sep)
RECURSIVE Join(_, _)
Join(parts, sep) ==
    IF parts = <<>> THEN <<>>
    ELSE IF Len(parts) = 1 THEN parts[1]
    ELSE parts[1] \o sep \o Join(Tail(parts), sep)

\* the orders in which a range over a map with the keys S can visit them
RECURSIVE RangeOrders(_)
RangeOrders(S) ==
    IF S = {} THEN {<<>>}
    ELSE UNION {{<<x>> \o o : o \in RangeOrders(S \ {x})} : x \in S}

\* the lists a loop can build whose i-th element is one of choices[i]
RECURSIVE Lists(_)
Lists(choices) ==
    IF choices = <<>> THEN {<<>>}
    ELSE {<<x>> \o l : x \in Head(choices), l \in Lists(Tail(choices))}

\* the results of ValueToString(v)
RECURSIVE ValueToString(_)
ValueToString(v) ==
    CASE v.k = "nil" -> {<<"n", "u", "l", "l">>}
      [] v.k = "string" ->
            {<<"\"">> \o ReplaceAll(ReplaceAll(v.s, "\\", <<"\\", "\\">>), "\"", <<"\\", "\"">>)
                      \o <<"\"">>}
      [] v.k \in {"int", "int64", "float64", "bool"} -> {Sprint(v)}
      [] v.k = "array" ->
            {<<"[">> \o Join(items, <<",">>) \o <<"]">> :
                items \in Lists([i \in DOMAIN v.a |-> ValueToString(v.a[i])])}
      [] v.k = "map" ->
            {<<"{">> \o Join(items, <<",">>) \o <<"}">> :
                items \in UNION {Lists([i \in DOMAIN o |->
                                    {o[i] \o <<":">> \o s : s \in ValueToString(v.m[o[i]])}]) :
                                 o \in RangeOrders(DOMAIN v.m)}}
      [] OTHER -> {Sprint(v)}

\* the results of paramsToString(params)
paramsToString(params) ==
    {Join(parts, <<" ">>) :
        parts \in UNION {Lists([i \in DOMAIN o |->
                            {o[i] \o <<"=">> \o s : s \in ValueToString(params.m[o[i]])}]) :
                         o \in RangeOrders(DOMAIN params.m)}}

\* the tokens of a []string as arguments
RECURSIVE Tokens(_)
Tokens(ss) == IF ss = <<>> THEN <<>> ELSE <<StrV(Head(ss))>> \o Tokens(Tail(ss))

\* len(m) > 0 of a map that may be nil
NonEmpty(m) == m.k = "map" /\ DOMAIN m.m # {}

\* BuildQueryArgs appending the TIMEOUT tokens for a zero timeout too
BuildQueryArgsTimeoutZero(command, graph, query, params, timeout, compact) ==
    {<<StrV(command), StrV(graph), StrV(q)>>
        \o (IF timeout >= 0
            THEN <<StrV(<<"T", "I", "M", "E", "O", "U", "T">>), StrV(Itoa(timeout))>>
            ELSE <<>>)
        \o (IF compact THEN <<StrV(<<"-", "-", "c", "o", "m", "p", "a", "c", "t">>)>> ELSE <<>>) :
     q \in IF NonEmpty(params)
           THEN {<<"C", "Y", "P", "H", "E", "R", " ">> \o paramStr \o <<" ">> \o query :
                    paramStr \in paramsToString(params)}
           ELSE {query}}

\* the results of BuildQueryArgs(command, graph, query, params, timeout, compact)
BuildQueryArgs(command, graph, query, params, timeout, compact) ==
    {<<StrV(command), StrV(graph), StrV(q)>>
        \o (IF timeout > 0
            THEN <<StrV(<<"T", "I", "M", "E", "O", "U", "T">>), StrV(Itoa(timeout))>>
            ELSE <<>>)
        \o (IF compact THEN <<StrV(<<"-", "-", "c", "o", "m", "p", "a", "c", "t">>)>> ELSE <<>>) :
     q \in IF NonEmpty(params)
           THEN {<<"C", "Y", "P", "H", "E", "R", " ">> \o paramStr \o <<" ">> \o query :
                    paramStr \in paramsToString(params)}
           ELSE {query}}

GraphConstraint ==
    <<"G", "R", "A", "P", "H", ".", "C", "O", "N", "S", "T", "R", "A", "I", "N", "T">>
Properties == <<"P", "R", "O", "P", "E", "R", "T", "I", "E", "S">>

\* BuildConstraintArgs with the count left out
BuildConstraintArgsNoCount(action, graph, constraintType, entityType, label, properties) ==
    <<StrV(GraphConstraint), StrV(action), StrV(graph), StrV(constraintType),
      StrV(entityType), StrV(label), StrV(Properties)>>
        \o Tokens(properties)

\* BuildConstraintArgs(action, graph, constraintType, entityType, label, properties)
BuildConstraintArgs(action, graph, constraintType, entityType, label, properties) ==
    <<StrV(GraphConstraint), StrV(action), StrV(graph), StrV(constraintType),
      StrV(entityType), StrV(label), StrV(Properties), IntV(Len(properties))>>
        \o Tokens(properties)

\* the key, value tokens of the options visited in the order o
RECURSIVE OptionTokens(_, _)
OptionTokens(options, o) ==
    IF o = <<>> THEN <<>>
    ELSE <<StrV(Head(o)), options.m[Head(o)]>> \o OptionTokens(options, Tail(o))

\* BuildIndexArgs appending an empty indexType or entityType as a token
BuildIndexArgsKeepEmpty(command, graph, indexType, entityType, label, options, properties) ==
    {<<StrV(command), StrV(graph), StrV(indexType), StrV(entityType), StrV(label)>>
        \o opts
        \o <<StrV(Properties), IntV(Len(properties))>>
        \o Tokens(properties) :
     opts \in IF options.k = "map"
              THEN {OptionTokens(options, o) : o \in RangeOrders(DOMAIN options.m)}
              ELSE {<<>>}}

\* the results of BuildIndexArgs(command, graph, indexType, entityType, label, options, properties)
BuildIndexArgs(command, graph, indexType, entityType, label, options, properties) ==
    {<<StrV(command), StrV(graph)>>
        \o (IF indexType # <<>> THEN <<StrV(indexType)>> ELSE <<>>)
        \o (IF entityType # <<>> THEN <<StrV(entityType)>> ELSE <<>>)
        \o <<StrV(label)>>
        \o opts
        \o <<StrV(Properties), IntV(Len(properties))>>
        \o Tokens(properties) :
     opts \in IF options.k = "map"
              THEN {OptionTokens(options, o) : o \in RangeOrders(DOMAIN options.m)}
              ELSE {<<>>}}

(***************************************************************************)
(* internal/redis/client.go and Connect.  A server s is [kind, addr, up,   *)
(* masters, masterUp]: what it is, whether it answers PING, its reply to   *)
(* SENTINEL MASTERS and whether the master it reports answers PING.  A     *)
(* client is [k, addr]; the results are [client, err].                     *)
(***************************************************************************)
NilClient == TypedNil("Client")
ErrDial == Errorf("dial tcp: connection refused", 0)
ErrUnknownCommand == Errorf("ERR unknown command", 0)
ErrClusterDisabled == Errorf("ERR This instance has cluster support disabled", 0)

singleClient(addr) == [k |-> "singleClient", addr |-> addr]
clusterClient(addr) == [k |-> "clusterClient", addr |-> addr]

\* client.Info(ctx, "server"): the text names the mode of the server
Info(s) == [result |-> <<"redis_mode:", s.kind>>, err |-> NoError]

\* client.ClusterInfo(ctx): only a server in cluster mode answers it
ClusterInfo(s) ==
    CASE s.kind = "cluster" -> [result |-> "cluster_state:ok", err |-> NoError]
      [] s.kind = "sentinel" -> [result |-> "", err |-> ErrUnknownCommand]
      [] OTHER -> [result |-> "", err |-> ErrClusterDisabled]

\* sentinelClient.Do(ctx, "SENTINEL", "MASTERS"): only a sentinel answers it
SentinelMasters(s) ==
    IF s.kind = "sentinel" THEN [result |-> s.masters, err |-> NoError]
    ELSE [result |-> NilV, err |-> ErrUnknownCommand]

containsSentinel(info) == FALSE

\* the loop of parseMasterAddr over master[i..], i += 2, with ip and port so far
RECURSIVE masterAddrFrom(_, _, _, _)
masterAddrFrom(master, i, ip, port) ==
    IF i > Len(master) - 1
    THEN (IF ip # <<>> /\ port # <<>> THEN ip \o <<":">> \o port ELSE <<>>)
    ELSE LET key == IF master[i].k = "string" THEN master[i].s ELSE <<>>
             val == IF master[i + 1].k = "string" THEN master[i + 1].s ELSE <<>>
         IN masterAddrFrom(master, i + 2,
                           IF key = <<"i", "p">> THEN val ELSE ip,
                           IF key = <<"p", "o", "r", "t">> THEN val ELSE port)

parseMasterAddr(masters) ==
    IF ~IsArr(masters) \/ Len(masters.a) = 0 THEN <<>>
    ELSE IF ~IsArr(masters.a[1]) THEN <<>>
    ELSE masterAddrFrom(masters.a[1].a, 1, <<>>, <<>>)

newSentinelClient(s) ==
    IF SentinelMasters(s).err # NoError
    THEN [client |-> NilClient, err |-> SentinelMasters(s).err]
    ELSE IF parseMasterAddr(SentinelMasters(s).result) = <<>>
    THEN [client |-> singleClient(s.addr), err |-> NoError]
    ELSE IF ~s.masterUp THEN [client |-> NilClient, err |-> ErrDial]
    ELSE [client |-> singleClient(parseMasterAddr(SentinelMasters(s).result)),
          err |-> NoError]

newClusterClient(s) ==
    IF ~s.up THEN [client |-> NilClient, err |-> ErrDial]
    ELSE [client |-> clusterClient(s.addr), err |-> NoError]

NewClient(s) ==
    IF ~s.up THEN [client |-> NilClient, err |-> ErrDial]
    ELSE IF Info(s).err = NoError /\ containsSentinel(Info(s).result)
    THEN newSentinelClient(s)
    ELSE IF ClusterInfo(s).err = NoError /\ ClusterInfo(s).result # ""
    THEN newClusterClient(s)
    ELSE [client |-> singleClient(s.addr), err |-> NoError]

\* Connect: (*FalkorDB, error), the FalkorDB given by its client
Connect(s) == NewClient(s)

(***************************************************************************)
(* The reply splitter and the resolution of indexes applied on their own   *)
(* to the inputs of a bounded domain.                                      *)
(***************************************************************************)
\* the sequences of length n over S
RECURSIVE SeqsOf(_, _)
SeqsOf(S, n) ==
    IF n = 0 THEN {<<>>}
    ELSE {Append(q, x) : q \in SeqsOf(S, n - 1), x \in S}

\* what a reply may hold at one position
ReplyElems == {NilV, StrV(<<"m">>), ArrV(<<>>), ArrV(<<StrV(<<"m">>), Int64V(12)>>)}

\* the replies ParseResult is applied to
ReplyInputs ==
    {NilV, StrV(<<"O", "K">>), Int64V(1)}
    \cup {ArrV(q) : q \in UNION {SeqsOf(ReplyElems, n) : n \in 0..MaxReplyLen}}

\* a table of n names
NameTable(c, n) == [i \in 1..n |-> <<c>> \o Itoa(i - 1)]

\* the caches the resolution is applied with
Caches ==
    {[labels |-> NameTable("P", n), relTypes |-> NameTable("K", n),
      propertyKeys |-> NameTable("n", n)] : n \in 0..MaxIndex}

\* an index as the server may send it: an integer, or its decimal text
Indexes == UNION {{Int64V(i), StrV(Itoa(i))} : i \in (-MaxIndex)..MaxIndex}

NodeInputs ==
    {ArrV(<<Int64V(5), ArrV(ls), ArrV(<<>>)>>) :
        ls \in SeqsOf(Indexes, 1) \cup SeqsOf(Indexes, 2)}
EdgeInputs ==
    {ArrV(<<Int64V(7), ix, Int64V(5), Int64V(6), ArrV(<<>>)>>) : ix \in Indexes}
PropertiesInputs ==
    {ArrV(<<ArrV(<<ix, Int64V(ValueTypeInteger), Int64V(1)>>)>>) : ix \in Indexes}

\* the names of the example payload
Person == <<"P", "e", "r", "s", "o", "n">>
Alice == <<"A", "l", "i", "c", "e">>
PersonCache == [labels |-> <<Person>>, relTypes |-> <<>>, propertyKeys |-> <<<<"n", "a", "m", "e">>>>]

\* what a property list may hold at one position: triples with a key index
\* inside, outside and below the table, a pair, a null
TripleInputs ==
    {ArrV(<<Int64V(i), Int64V(ValueTypeString), StrV(Alice)>>) : i \in {-1, 0, MaxIndex}}
    \cup {ArrV(<<Int64V(0), Int64V(ValueTypeInteger), StrV(<<"2", "5">>)>>),
          ArrV(<<Int64V(0), Int64V(ValueTypeString)>>), NilV}

\* node payloads [id, labels, properties] with up to two properties
NodePayloads ==
    {ArrV(<<Int64V(5), ArrV(<<Int64V(0)>>), ArrV(ts)>>) :
        ts \in UNION {SeqsOf(TripleInputs, n) : n \in 0..2}}

\* what a node wrapper may hold at one position: tagged nodes with a label
\* index inside and below the table, a tagged null, a tagged pair that is too
\* short for a node, a null
NodeItems ==
    {Tagged(ValueTypeNode, ArrV(<<Int64V(i + 5), ArrV(<<Int64V(i)>>), ArrV(<<>>)>>)) :
        i \in {-1, 0}}
    \cup {Tagged(ValueTypeNode, NilV),
          Tagged(ValueTypeNode, ArrV(<<Int64V(5), ArrV(<<>>)>>)), NilV}

\* the same for an edge wrapper
EdgeItems ==
    {Tagged(ValueTypeEdge, ArrV(<<Int64V(7), Int64V(0), Int64V(5), Int64V(6), ArrV(<<>>)>>)),
     Tagged(ValueTypeEdge, NilV), NilV}

\* path payloads [[ArrayType, nodes], [ArrayType, edges]]
PathInputs ==
    {ArrV(<<Tagged(ValueTypeArray, ArrV(ns)), Tagged(ValueTypeArray, ArrV(es))>>) :
        ns \in UNION {SeqsOf(NodeItems, n) : n \in 0..(MaxPathLen + 1)},
        es \in UNION {SeqsOf(EdgeItems, n) : n \in 0..MaxPathLen}}

\* what a row may hold at one column: scalars, tagged pairs (one of them a
\* node with a label index below the table, one an edge that is too short),
\* sequences of other lengths
CellInputs ==
    {NilV, Int64V(7), StrV(<<"m">>),
     Tagged(ValueTypeInteger, StrV(<<"2", "5">>)),
     Tagged(ValueTypeNode, ArrV(<<Int64V(5), ArrV(<<Int64V(-1)>>), ArrV(<<>>)>>)),
     Tagged(ValueTypeEdge, ArrV(<<Int64V(7)>>)),
     ArrV(<<>>), ArrV(<<Int64V(ValueTypeString)>>),
     ArrV(<<Int64V(ValueTypeString), StrV(<<"x">>), StrV(<<"y">>)>>)}

\* the header lists: none, and up to two columns of distinct names
HeaderInputs ==
    {NilV, ArrV(<<>>), ArrV(<<Tagged(1, StrV(<<"a">>))>>),
     ArrV(<<Tagged(1, StrV(<<"a">>)), Tagged(1, StrV(<<"b">>))>>)}

\* the split replies parseResult is applied to: one row of up to MaxCols cells
RawInputs ==
    {RawResult(h, ArrV(<<ArrV(row)>>), <<>>) :
        h \in HeaderInputs, row \in UNION {SeqsOf(CellInputs, n) : n \in 0..MaxCols}}
    \cup {RawResult(h, d, <<>>) : h \in HeaderInputs, d \in {NilV, ArrV(<<NilV>>)}}

\* the replies to SENTINEL MASTERS: none, no master, a master with its
\* address, a master without a port
MastersInputs ==
    {NilV, ArrV(<<>>),
     ArrV(<<ArrV(<<StrV(<<"n", "a", "m", "e">>), StrV(<<"m">>), StrV(<<"i", "p">>),
                   StrV(<<"h">>), StrV(<<"p", "o", "r", "t">>), StrV(<<"1">>)>>)>>),
     ArrV(<<ArrV(<<StrV(<<"i", "p">>), StrV(<<"h">>)>>)>>)}

\* the servers Connect is applied to
ServerInputs ==
    [kind : {"standalone", "cluster", "sentinel"}, addr : {<<"s", ":", "0">>},
     up : BOOLEAN, masters : MastersInputs, masterUp : BOOLEAN]

\* what a map payload may hold at one position: keys that are strings, an
\* integer or null, values that are raw or tagged, one of them a map
MapElems ==
    {NilV, StrV(<<"a">>), StrV(<<"b">>), Int64V(5),
     Tagged(ValueTypeInteger, StrV(<<"2", "5">>)),
     Tagged(ValueTypeMap, ArrV(<<StrV(<<"a">>), Int64V(1)>>))}

\* the map payloads: flat sequences of up to MaxMapLen elements, and a string
MapPayloads ==
    {ArrV(q) : q \in UNION {SeqsOf(MapElems, n) : n \in 0..MaxMapLen}}
    \cup {StrV(<<"m">>)}

\* the rows a lookup reply may hold: the rows of two names, and rows that are
\* no sequence, empty, with a first cell that is no tagged pair, or with a
\* value that is no string
LookupRows ==
    {ArrV(<<Tagged(ValueTypeString, StrV(<<"P">>))>>),
     ArrV(<<Tagged(ValueTypeString, StrV(<<"E">>))>>),
     StrV(<<"P">>), ArrV(<<>>), ArrV(<<StrV(<<"P">>)>>),
     ArrV(<<Tagged(ValueTypeInteger, Int64V(3))>>)}

\* the replies of a lookup: up to MaxRows rows between a header and statistics
LookupReplies ==
    {ArrV(<<HeaderRow, ArrV(q), Meta>>) :
        q \in UNION {SeqsOf(LookupRows, n) : n \in 0..MaxRows}}

\* the type codes a tagged pair may carry: the known ones and some around them
TypeCodeInputs == (ValueTypeUnknown - 2)..(ValueTypePoint + 7)

\* the texts an integer or a double may arrive as, and some that are neither
NumberTexts ==
    {Itoa(n) : n \in {MinInt - 1, MinInt, -7, 0, 25, MaxInt, MaxInt + 1}}
    \cup {<<>>, <<"x">>, <<"2", "x">>, <<"t", "r", "u", "e">>, <<"2", ".", "5">>}

\* the payloads parseValue is applied to
PayloadInputs ==
    {NilV, IntV(42), ArrV(<<>>), ArrV(<<Int64V(1), StrV(<<"m">>)>>)}
    \cup {StrV(s) : s \in NumberTexts \cup SeqsOf({"a", "\"", "\\"}, MaxStrLen - 1)}
    \cup {Int64V(n) : n \in MinInt..MaxInt}
    \cup {BoolV(b) : b \in BOOLEAN}
    \cup {FloatV(t) : t \in (-MaxTenths)..MaxTenths}

ValueInputPairs == [valueType : TypeCodeInputs, value : PayloadInputs]

InitCodec ==
    /\ IdleHandle
    /\ out = NoOut
    /\ \/ fn = "ParseResult" /\ arg \in ReplyInputs /\ parser = newResultParser
       \/ fn = "parseNode" /\ arg \in NodeInputs /\ parser \in Caches
       \/ fn = "parseNode" /\ arg \in NodePayloads /\ parser \in Caches \cup {PersonCache}
       \/ fn = "parseEdge" /\ arg \in EdgeInputs /\ parser \in Caches
       \/ fn = "parseProperties" /\ arg \in PropertiesInputs /\ parser \in Caches
       \/ fn = "parseValue" /\ arg \in ValueInputPairs /\ parser = newResultParser
       \/ fn = "parsePath" /\ arg \in PathInputs /\ parser \in {newResultParser, PersonCache}
       \/ fn = "parseResult" /\ arg \in RawInputs /\ parser = newResultParser
       \/ fn = "Connect" /\ arg \in ServerInputs /\ parser = newResultParser
       \/ fn = "extractStringList" /\ arg \in LookupReplies /\ parser = newResultParser
       \/ fn = "parseMap" /\ arg \in MapPayloads /\ parser \in {newResultParser, PersonCache}

Apply(f, result) ==
    /\ fn = f
    /\ out = NoOut
    /\ out' = result
    /\ UNCHANGED <<srv, parser, mu, pc, cmd, err, reply, raw, rows, res, lookups, ret,
                   calls, fn, arg>>

ApplyParseResult == Apply("ParseResult", ParseResult(arg))
ApplyParseNode == Apply("parseNode", parseNode(parser, arg))
ApplyParseEdge == Apply("parseEdge", parseEdge(parser, arg))
ApplyParseProperties == Apply("parseProperties", parseProperties(parser, arg.a))
ApplyParseValue == Apply("parseValue", parseValue(parser, arg.valueType, arg.value))
ApplyParsePath == Apply("parsePath", parsePath(parser, arg))
ApplyParseResultRows == Apply("parseResult", parseResult(parser, arg))
ApplyConnect == Apply("Connect", Connect(arg))
ApplyParseMap == Apply("parseMap", parseMap(parser, arg))
ApplyExtractStringList == Apply("extractStringList", extractStringList(arg))

NextCodec ==
    \/ ApplyParseResult
    \/ ApplyParseNode
    \/ ApplyParseEdge
    \/ ApplyParseProperties
    \/ ApplyParseValue
    \/ ApplyParsePath
    \/ ApplyParseResultRows
    \/ ApplyConnect
    \/ ApplyParseMap
    \/ ApplyExtractStringList

SpecCodec == InitCodec /\ [][NextCodec]_vars

(***************************************************************************)
(* The argument builders and the literal serializer called up to MaxRuns   *)
(* times on one input of a bounded domain; out lists the results.          *)
(***************************************************************************)
\* the characters of the strings: a letter, the double quote, the backslash
Alphabet == {"a", "\"", "\\"}
\* hello "world" and path\to\file
HelloWorld == <<"h", "e", "l", "l", "o", " ", "\"", "w", "o", "r", "l", "d", "\"">>
PathToFile == <<"p", "a", "t", "h", "\\", "t", "o", "\\", "f", "i", "l", "e">>
StringInputs ==
    UNION {SeqsOf(Alphabet, n) : n \in 0..MaxStrLen} \cup {HelloWorld, PathToFile}

\* the values a parameter, an option or a map entry may hold
ScalarInputs == {NilV, StrV(<<"a", "\"">>), IntV(42), BoolV(TRUE), FloatV(31)}
ParamValues ==
    ScalarInputs
    \cup {ArrV(<<IntV(1), IntV(2), IntV(3)>>),
          MapV([x \in {<<"k">>, <<"j">>} |-> IF x = <<"k">> THEN StrV(<<"v">>) ELSE IntV(1)])}
ParamKeys == {<<"n">>, <<"i", "d">>}

\* the maps over some of the keys, the empty map and the nil map
MapInputs(keys, values) ==
    {NilMap} \cup {MapV(m) : m \in UNION {[ks -> values] : ks \in SUBSET keys}}

ValueInputs ==
    {StrV(s) : s \in StringInputs} \cup ParamValues
    \cup {MapV([x \in {<<"k">>} |-> v]) : v \in ParamValues}

Timeouts == {-1, 0, 1, 50}

QueryInputs ==
    [command : {<<"Q">>, <<"R", "O">>}, graph : {<<"g">>}, query : {<<"M">>, <<>>},
     params : MapInputs(ParamKeys, ParamValues), timeout : Timeouts, compact : BOOLEAN]

PropertyLists == UNION {SeqsOf({<<"n">>, <<"e">>}, n) : n \in 0..MaxProps}

ConstraintInputs ==
    [action : {<<"C">>, <<"D">>}, graph : {<<"g">>}, constraintType : {<<"U">>},
     entityType : {<<"N">>}, label : {<<"P">>}, properties : PropertyLists]

IndexInputs ==
    [command : {<<"I">>}, graph : {<<"g">>}, indexType : {<<>>, <<"V">>},
     entityType : {<<>>, <<"N">>}, label : {<<"P">>},
     options : MapInputs({<<"d">>, <<"s">>}, {IntV(8), StrV(<<"c">>)}),
     properties : PropertyLists]

InitArgs ==
    /\ HandleInit
    /\ out = <<>>
    /\ \/ fn = "ValueToString" /\ arg \in ValueInputs
       \/ fn = "BuildQueryArgs" /\ arg \in QueryInputs
       \/ fn = "BuildConstraintArgs" /\ arg \in ConstraintInputs
       \/ fn = "BuildIndexArgs" /\ arg \in IndexInputs

\* one more call of f on arg, returning one of results
Call(f, results) ==
    /\ fn = f
    /\ Len(out) < MaxRuns
    /\ \E r \in results : out' = Append(out, r)
    /\ UNCHANGED <<srv, parser, mu, pc, cmd, err, reply, raw, rows, res, lookups, ret,
                   calls, fn, arg>>

CallValueToString == Call("ValueToString", ValueToString(arg))
CallBuildQueryArgs ==
    Call("BuildQueryArgs",
         BuildQueryArgs(arg.command, arg.graph, arg.query, arg.params, arg.timeout,
                        arg.compact))
CallBuildConstraintArgs ==
    Call("BuildConstraintArgs",
         {BuildConstraintArgs(arg.action, arg.graph, arg.constraintType, arg.entityType,
                              arg.label, arg.properties)})
CallBuildIndexArgs ==
    Call("BuildIndexArgs",
         BuildIndexArgs(arg.command, arg.graph, arg.indexType, arg.entityType, arg.label,
                        arg.options, arg.properties))

NextArgs ==
    \/ CallValueToString
    \/ CallBuildQueryArgs
    \/ CallBuildConstraintArgs
    \/ CallBuildIndexArgs

SpecArgs == InitArgs /\ [][NextArgs]_vars

(***************************************************************************)
(* Two handles of one FalkorDB client.  The first is the handle of the     *)
(* state machine above, used by goroutine 1; its resultParser is the       *)
(* variable parser, at address 1.  out is the Graph a later SelectGraph    *)
(* returned, arg the resultParser at address 2 that it allocated.          *)
(***************************************************************************)
GraphNames == {GraphName, "h"}

\* the resultParser at address a
ParserAt(a) == IF a = 1 THEN parser ELSE arg

\* SelectGraph returning a handle on the resultParser of the first handle
SelectGraphSharingParser(name) ==
    /\ out = NoOut
    /\ out' = [k |-> "Graph", name |-> name, parser |-> 1]
    /\ UNCHANGED <<srv, parser, mu, pc, cmd, err, reply, raw, rows, res, lookups, ret,
                   calls, fn, arg>>

\* SelectGraph: &Graph{name, client, parser: newResultParser()}
SelectGraph(name) ==
    /\ out = NoOut
    /\ out' = [k |-> "Graph", name |-> name, parser |-> 2]
    /\ arg' = newResultParser
    /\ UNCHANGED <<srv, parser, mu, pc, cmd, err, reply, raw, rows, res, lookups, ret,
                   calls, fn>>

\* a whole ROQuery of another goroutine through the handle out: its refresh
\* stores the lists of the three lookups in the resultParser of that handle
ROQueryOther ==
    /\ out # NoOut
    /\ \E p \in {updateMetadata(ParserAt(out.parser),
                                extractStringList(LookupReply(srv.labels)),
                                extractStringList(LookupReply(srv.relTypes)),
                                extractStringList(LookupReply(srv.propertyKeys)))} :
          /\ p # ParserAt(out.parser)
          /\ IF out.parser = 1 THEN parser' = p /\ arg' = arg
                               ELSE arg' = p /\ parser' = parser
    /\ UNCHANGED <<srv, mu, pc, cmd, err, reply, raw, rows, res, lookups, ret, calls, fn,
                   out>>

NextHandles ==
    \/ Query(1)
    \/ ROQuery(1)
    \/ Lock(1)
    \/ LookupLabels(1)
    \/ SetLabels(1)
    \/ LookupRelTypes(1)
    \/ SetRelTypes(1)
    \/ LookupPropertyKeys(1)
    \/ SetPropertyKeys(1)
    \/ Unlock(1)
    \/ RLock(1)
    \/ DecodeRow(1)
    \/ ReturnResult(1)
    \/ \E name \in GraphNames : SelectGraph(name)
    \/ ROQueryOther

SpecHandles == Init /\ [][NextHandles]_vars

(***************************************************************************)
(* Properties.                                                             *)
(***************************************************************************)
\* the commands of one whole refresh, in the order they are sent
RefreshLookups == <<LookupLabelsArgs, LookupRelTypesArgs, LookupPropertyKeysArgs>>

\* where a goroutine is inside updateMetadataFromResult, the lock held
RefreshPcs == {"labels", "setLabels", "relTypes", "setRelTypes", "propertyKeys",
               "setPropertyKeys", "unlock"}

\* C1: in a call that succeeds the refresh comes after the reply of the query and
\* before the decoding of it: a goroutine sends a lookup only with the reply of its
\* query in hand, and when it is about to decode or has decoded a row of the
\* reply it has sent the three lookups, stored their results and left the refresh.
C1_RefreshBetweenReplyAndDecode ==
    \A t \in Goroutines :
        /\ (pc[t] \in RefreshPcs \/ lookups[t] # <<>>) => err[t] = NoError
        /\ pc[t] \in RefreshPcs \cup {"lock", "lockWait"} =>
                reply[t] # NilV /\ rows[t] = <<>> /\ raw[t] = NilRawResult
        /\ (pc[t] \in {"rlock", "decode"} \/ rows[t] # <<>> \/ raw[t] # NilRawResult) =>
                lookups[t] = RefreshLookups /\ mu.writer # t
        /\ (ret[t] # NoReturn /\ ret[t].err = NoError) => lookups[t] = RefreshLookups

\* a goroutine has decoded a row of a reply, a node resolved by the refreshed cache
C1_Witness ==
    \E t \in Goroutines :
        /\ pc[t] = "decode"
        /\ rows[t] # <<>>
        /\ parser.labels # <<>>
        /\ lookups[t] = RefreshLookups


\* what a decoded row holds in its column
Cell(row) == row.m[<<"x">>]

\* C2: with a server that only appends names and lookups that succeed, under
\* every interleaving of the calls of the goroutines every row a goroutine has
\* decoded is the row as decoded with the server's own lists, and the names in
\* it are names of the server, no placeholder.
C2_NamesFresh ==
    \A t \in Goroutines : \A i \in 1..Len(rows[t]) :
        /\ rows[t][i] = parseDataRow(srv, raw[t], i)
        /\ Cell(rows[t][i]).k \in {"Node", "Edge"}
        /\ Cell(rows[t][i]).k = "Node" =>
               \A j \in 1..Len(Cell(rows[t][i]).Labels) :
                   Cell(rows[t][i]).Labels[j] \in LabelNames
        /\ Cell(rows[t][i]).k = "Edge" =>
               Cell(rows[t][i]).RelationshipType \in RelTypeNames
        /\ DOMAIN Cell(rows[t][i]).Properties.m \subseteq PropertyKeyNames

\* a goroutine has decoded a node and an edge with a property while the other
\* goroutine is in a call of its own
C2_Witness ==
    \E t \in Goroutines : \E u \in Goroutines \ {t} :
        /\ Len(rows[t]) = 2
        /\ Cell(rows[t][1]).Labels # <<>>
        /\ Cell(rows[t][2]).k = "Edge"
        /\ Cell(rows[t][2]).Properties # EmptyMap
        /\ pc[u] # "idle"

\* the name the resolution of index i is to give: the name at position i of the
\* table, the placeholder outside of it
Resolved(table, prefix, i) ==
    IF 0 <= i /\ i < Len(table) THEN table[i + 1] ELSE prefix \o Itoa(i)

\* C3: the resolution of a label, relationship type or property key index never
\* fails, whatever the index and the cache: the node, edge or property map comes
\* out, with the cached name for an index in range and the placeholder for any
\* other index, a negative one too.
C3_ResolutionNeverFails ==
    /\ (fn = "parseNode" /\ out # NoOut) =>
           /\ out # PanicV
           /\ out.Labels = [j \in 1..Len(arg.a[2].a) |->
                               Resolved(parser.labels, LabelPrefix, ToInt(arg.a[2].a[j]))]
    /\ (fn = "parseEdge" /\ out # NoOut) =>
           /\ out # PanicV
           /\ out.RelationshipType =
                  Resolved(parser.relTypes, TypePrefix, ToInt(arg.a[2]))
    /\ (fn = "parseProperties" /\ out # NoOut) =>
           /\ out # PanicV
           /\ DOMAIN out.m =
                  {Resolved(parser.propertyKeys, PropPrefix, ToInt(arg.a[1].a[1]))}

\* C4: no decoding is interleaved with a refresh. A goroutine inside the refresh
\* holds the lock as the writer with no reader in; a goroutine decodes exactly
\* while it holds the lock as a reader, and then no goroutine is inside a
\* refresh; the tables change only in a step of the writer, and do not change
\* while a reader stays in.
C4_NoDecodeDuringRefresh ==
    /\ [](\A t \in Goroutines :
             /\ pc[t] \in RefreshPcs => mu.writer = t /\ mu.readers = {}
             /\ pc[t] = "decode" <=> t \in mu.readers
             /\ t \in mu.readers => \A u \in Goroutines : pc[u] \notin RefreshPcs)
    /\ [][(parser' # parser =>
                /\ mu.writer \in Goroutines
                /\ mu.readers = {}
                /\ pc[mu.writer] \in {"setLabels", "setRelTypes", "setPropertyKeys"})
           /\ ((mu.readers \cap mu'.readers # {}) => parser' = parser)]_vars

\* the two goroutines decode at the same time, after a refresh changed the tables
C4_Witness ==
    /\ mu.readers = Goroutines
    /\ \A t \in Goroutines : pc[t] = "decode"
    /\ parser # newResultParser

\* s is the beginning of q
IsPrefix(s, q) == Len(s) <= Len(q) /\ s = SubSeq(q, 1, Len(s))

\* C5: every query that was executed, sent as GRAPH.QUERY or as GRAPH.RO_QUERY,
\* is followed by a refresh of three read-only lookups: labels, relationship
\* types, property keys, in this order and no other command. What a call has sent
\* is always a beginning of the three, and all three once the refresh is left.
C5_RefreshAfterEveryQuery ==
    \A t \in Goroutines :
        /\ IsPrefix(lookups[t], RefreshLookups)
        /\ \A i \in 1..Len(lookups[t]) : lookups[t][i][1] = "GRAPH.RO_QUERY"
        /\ (cmd[t] # "" /\ err[t] = NoError) =>
               /\ cmd[t] \in {CmdQuery, CmdROQuery}
               /\ pc[t] \in {"lock", "lockWait", "labels"} => lookups[t] = <<>>
               /\ pc[t] \in {"setLabels", "relTypes"} => Len(lookups[t]) = 1
               /\ pc[t] \in {"setRelTypes", "propertyKeys"} => Len(lookups[t]) = 2
               /\ pc[t] \in {"setPropertyKeys", "unlock", "rlock", "decode", "idle"} =>
                      lookups[t] = RefreshLookups

\* a read-only query has returned its result after its refresh
C5_Witness ==
    \E t \in Goroutines :
        /\ cmd[t] = CmdROQuery
        /\ pc[t] = "idle"
        /\ ret[t] # NoReturn
        /\ ret[t].err = NoError
        /\ lookups[t] = RefreshLookups

\* the list of names that the reply of a lookup holds, row by row
NamesOf(result) ==
    [i \in 1..Len(result.a[2].a) |-> result.a[2].a[i].a[1].a[2].s]

\* goroutine t stores the result of the lookup made at pc "at"
Stores(t, at, to) == pc[t] = at /\ pc'[t] = to

\* C6: after a lookup that succeeded the table of the cache is the list that the
\* lookup returned, whatever the table held before and also when the list is
\* empty or shorter than the table.
C6_TableIsReturnedList ==
    [][\A t \in Goroutines :
          /\ (Stores(t, "setLabels", "relTypes") /\ res.err = NoError) =>
                 parser'.labels = NamesOf(res.result)
          /\ (Stores(t, "setRelTypes", "propertyKeys") /\ res.err = NoError) =>
                 parser'.relTypes = NamesOf(res.result)
          /\ (Stores(t, "setPropertyKeys", "unlock") /\ res.err = NoError) =>
                 parser'.propertyKeys = NamesOf(res.result)]_vars

\* the table that is to follow a lookup: kept when the lookup failed, the list
\* returned when it succeeded
Tolerant(table) == IF res.err # NoError THEN table ELSE NamesOf(res.result)

\* C7: a refresh tolerates the failure of some of its lookups. Each of the three
\* tables on its own keeps its contents when its lookup failed and is replaced by
\* the list returned when its lookup succeeded, the other two tables are not
\* touched by it, and the call goes on without an error.
C7_PartialFailureTolerant ==
    [][\A t \in Goroutines :
          /\ Stores(t, "setLabels", "relTypes") =>
                 parser' = [parser EXCEPT !.labels = Tolerant(@)] /\ ret' = ret
          /\ Stores(t, "setRelTypes", "propertyKeys") =>
                 parser' = [parser EXCEPT !.relTypes = Tolerant(@)] /\ ret' = ret
          /\ Stores(t, "setPropertyKeys", "unlock") =>
                 parser' = [parser EXCEPT !.propertyKeys = Tolerant(@)] /\ ret' = ret]_vars

\* C8: a call whose round trip returns an error returns this error and no result,
\* sends no lookup and takes no lock, and leaves the three tables as they were.
C8_TransportErrorReturned ==
    /\ [](\A t \in Goroutines :
             err[t] # NoError =>
                 /\ err[t] \in TransportErrors
                 /\ pc[t] = "idle"
                 /\ ret[t] = Return(NilQueryResult, err[t])
                 /\ lookups[t] = <<>>
                 /\ mu.writer # t /\ t \notin mu.readers)
    /\ [][(calls' # calls /\ pc' = pc) =>
              parser' = parser /\ mu' = mu /\ res' = res]_vars

\* a write sent as a read-only query was rejected with a cache that holds names
C8_Witness ==
    \E t \in Goroutines :
        /\ err[t] = ErrReadOnly
        /\ cmd[t] = CmdROQuery
        /\ ret[t] = Return(NilQueryResult, ErrReadOnly)
        /\ parser.labels # <<>>

\* the reply splitter has been applied to its input
Split == fn = "ParseResult" /\ out # NoOut

\* the reply has length n
HasLen(v, n) == IsArr(v) /\ Len(v.a) = n

\* C9 as stated: the splitter goes by the length of the reply only. Length 1 gives
\* a metadata-only result with null headers and null data, length 3 gives a full
\* result, every other input gives an error and no result.
C9_ArityOnly ==
    Split =>
        IF HasLen(arg, 1)
        THEN out.err = NoError /\ out.rr.Headers = NilV /\ out.rr.Data = NilV
        ELSE IF HasLen(arg, 3)
        THEN out.err = NoError /\ out.rr # NilRawResult
        ELSE out.err # NoError /\ out.rr = NilRawResult

\* the element of the reply that holds the metadata is a sequence
MetadataShaped(v) ==
    \/ HasLen(v, 1) /\ IsArr(v.a[1])
    \/ HasLen(v, 3) /\ IsArr(v.a[3])

\* C9 amended: the splitter gives a result exactly for a sequence of length 1 or 3
\* whose metadata element (the only one, the third) is a sequence: length 1 gives
\* a metadata-only result with null headers and null data, length 3 a full
\* result. Every other input gives an error and no result.
C9_ArityAndMetadata ==
    Split =>
        /\ out.err = NoError <=> MetadataShaped(arg)
        /\ out.err # NoError => out.rr = NilRawResult
        /\ (out.err = NoError /\ HasLen(arg, 1)) =>
               /\ out.rr.Headers = NilV /\ out.rr.Data = NilV
               /\ out.rr.Metadata = [i \in 1..Len(arg.a[1].a) |-> ToString(arg.a[1].a[i])]
        /\ (out.err = NoError /\ HasLen(arg, 3)) =>
               out.rr.Metadata = [i \in 1..Len(arg.a[3].a) |-> ToString(arg.a[3].a[i])]

\* a reply of length 1 whose element is no sequence was refused
C9_Witness ==
    /\ Split
    /\ HasLen(arg, 1)
    /\ ~IsArr(arg.a[1])
    /\ out.err # NoError

\* C10: for a reply of length 3, headers or data that are no sequence come out as
\* null without an error; metadata that is no sequence makes the split fail, with
\* well-formed headers and data too.
C10_LengthThree ==
    (Split /\ HasLen(arg, 3)) =>
        /\ out.err # NoError <=> ~IsArr(arg.a[3])
        /\ out.err = NoError =>
               /\ out.rr.Headers = IF IsArr(arg.a[1]) THEN arg.a[1] ELSE NilV
               /\ out.rr.Data = IF IsArr(arg.a[2]) THEN arg.a[2] ELSE NilV

\* a reply of length 3 with headers that are no sequence was split into a result
\* with null headers
C10_Witness ==
    /\ Split
    /\ HasLen(arg, 3)
    /\ ~IsArr(arg.a[1])
    /\ IsArr(arg.a[2])
    /\ out.err = NoError
    /\ out.rr.Headers = NilV

\* the texts "CYPHER k1=v1 k2=v2 query" over the orders of the pairs
Prefixed(params, query) ==
    {<<"C", "Y", "P", "H", "E", "R", " ">>
        \o Join([i \in DOMAIN o |-> o[i] \o <<"=">> \o lit[o[i]]], <<" ">>)
        \o <<" ">> \o query :
     o \in RangeOrders(DOMAIN params.m),
     lit \in {l \in [DOMAIN params.m -> UNION {ValueToString(params.m[x]) : x \in DOMAIN params.m}] :
                \A x \in DOMAIN params.m : l[x] \in ValueToString(params.m[x])}}

\* C11: BuildQueryArgs returns [command, graphName, queryText'], then the two
\* tokens "TIMEOUT" and the decimal text of the timeout exactly when the
\* timeout is positive, then the token "--compact" exactly when compact is
\* requested; queryText' is the query behind "CYPHER " and the key=literal
\* pairs exactly when params is non-empty, and the query itself when params
\* is nil or empty.
C11_QueryArgsLayout ==
    fn = "BuildQueryArgs" =>
        \A i \in DOMAIN out :
            LET r == out[i]
                t == IF arg.timeout > 0 THEN 2 ELSE 0
                c == IF arg.compact THEN 1 ELSE 0
            IN /\ Len(r) = 3 + t + c
               /\ r[1] = StrV(arg.command)
               /\ r[2] = StrV(arg.graph)
               /\ r[3].k = "string"
               /\ IF arg.params.k = "map" /\ Cardinality(DOMAIN arg.params.m) > 0
                  THEN r[3].s \in Prefixed(arg.params, arg.query)
                  ELSE r[3].s = arg.query
               /\ arg.timeout > 0 =>
                    /\ r[4] = StrV(<<"T", "I", "M", "E", "O", "U", "T">>)
                    /\ r[5] = StrV(Itoa(arg.timeout))
               /\ arg.compact =>
                    r[3 + t + 1] = StrV(<<"-", "-", "c", "o", "m", "p", "a", "c", "t">>)

\* a call with two parameters, a positive timeout and compact has returned
C11_Witness ==
    /\ fn = "BuildQueryArgs"
    /\ arg.params.k = "map"
    /\ Cardinality(DOMAIN arg.params.m) = 2
    /\ arg.timeout > 0
    /\ arg.compact
    /\ Len(out) > 0
    /\ Len(out[1]) = 6

\* C12: the argument builders and the literal serializer are pure: two calls
\* with equal inputs return the same ordered output, also BuildQueryArgs with
\* two parameters, ValueToString on a map with two keys and BuildIndexArgs
\* with two options.
C12_EqualInputsEqualOutputs ==
    \A i, j \in DOMAIN out : out[i] = out[j]

\* s with every backslash and every double quote behind one more backslash
RECURSIVE Escaped(_)
Escaped(s) ==
    IF s = <<>> THEN <<>>
    ELSE (IF Head(s) \in {"\\", "\""} THEN <<"\\", Head(s)>> ELSE <<Head(s)>>)
            \o Escaped(Tail(s))

\* e read back: a backslash stands for the character behind it
RECURSIVE Unescaped(_)
Unescaped(e) ==
    IF e = <<>> THEN <<>>
    ELSE IF Head(e) = "\\" /\ Len(e) > 1 THEN <<e[2]>> \o Unescaped(Tail(Tail(e)))
    ELSE <<Head(e)>> \o Unescaped(Tail(e))

\* e holds a double quote that no backslash escapes
RECURSIVE BareQuote(_)
BareQuote(e) ==
    IF e = <<>> THEN FALSE
    ELSE IF Head(e) = "\"" THEN TRUE
    ELSE IF Head(e) = "\\" THEN (Len(e) = 1 \/ BareQuote(Tail(Tail(e))))
    ELSE BareQuote(Tail(e))

\* C13: the literal of a string s is s with each backslash doubled and each
\* double quote behind one backslash, between two double quotes; between the
\* delimiters it holds no unescaped double quote, and read back it is s.
C13_StringLiteralEscaped ==
    (fn = "ValueToString" /\ arg.k = "string") =>
        \A i \in DOMAIN out :
            /\ out[i] = <<"\"">> \o Escaped(arg.s) \o <<"\"">>
            /\ Len(out[i]) >= 2
            /\ ~BareQuote(SubSeq(out[i], 2, Len(out[i]) - 1))
            /\ Unescaped(SubSeq(out[i], 2, Len(out[i]) - 1)) = arg.s

\* hello "world" has been serialized to "hello \"world\""
C13_Witness ==
    /\ fn = "ValueToString"
    /\ arg = StrV(HelloWorld)
    /\ Len(out) > 0
    /\ out[1] = <<"\"", "h", "e", "l", "l", "o", " ", "\\", "\"", "w", "o", "r", "l", "d",
                  "\\", "\"", "\"">>

\* C14: BuildConstraintArgs returns the eight tokens "GRAPH.CONSTRAINT",
\* action, graphName, constraintType, entityType, label, "PROPERTIES", count,
\* then every property name as a token of its own in input order; count is
\* the number of properties and the length is 8 plus that number, also for
\* no property.
C14_ConstraintArgsLayout ==
    fn = "BuildConstraintArgs" =>
        \A i \in DOMAIN out :
            /\ Len(out[i]) = 8 + Len(arg.properties)
            /\ SubSeq(out[i], 1, 7) =
                    <<StrV(GraphConstraint), StrV(arg.action), StrV(arg.graph),
                      StrV(arg.constraintType), StrV(arg.entityType), StrV(arg.label),
                      StrV(Properties)>>
            /\ out[i][8] = IntV(Len(arg.properties))
            /\ \A j \in DOMAIN arg.properties : out[i][8 + j] = StrV(arg.properties[j])

\* a call with two property names has returned its ten tokens
C14_Witness ==
    /\ fn = "BuildConstraintArgs"
    /\ arg.properties = <<<<"n">>, <<"e">>>>
    /\ Len(out) > 0
    /\ Len(out[1]) = 10
    /\ out[1][10] = StrV(<<"e">>)

\* the keys of a map, none for the nil map
KeysOf(m) == IF m.k = "map" THEN DOMAIN m.m ELSE {}

\* C15: BuildIndexArgs returns command and graphName, the indexType only if it
\* is not empty, the entityType only if it is not empty, the label, the two
\* tokens key, value for every option, "PROPERTIES", the number of properties
\* and every property name in input order; its length is 5 + (1 if indexType
\* is not empty) + (1 if entityType is not empty) + 2 * options + properties.
C15_IndexArgsLayout ==
    fn = "BuildIndexArgs" =>
        \A i \in DOMAIN out :
            LET r == out[i]
                it == IF arg.indexType = <<>> THEN 0 ELSE 1
                et == IF arg.entityType = <<>> THEN 0 ELSE 1
                no == Cardinality(KeysOf(arg.options))
                np == Len(arg.properties)
                ob == 3 + it + et
                pb == ob + 2 * no
            IN /\ Len(r) = 5 + it + et + 2 * no + np
               /\ r[1] = StrV(arg.command)
               /\ r[2] = StrV(arg.graph)
               /\ it = 1 => r[3] = StrV(arg.indexType)
               /\ et = 1 => r[3 + it] = StrV(arg.entityType)
               /\ r[ob] = StrV(arg.label)
               /\ \E o \in RangeOrders(KeysOf(arg.options)) :
                    \A j \in DOMAIN o :
                        /\ r[ob + 2 * j - 1] = StrV(o[j])
                        /\ r[ob + 2 * j] = arg.options.m[o[j]]
               /\ r[pb + 1] = StrV(Properties)
               /\ r[pb + 2] = IntV(np)
               /\ \A j \in DOMAIN arg.properties : r[pb + 2 + j] = StrV(arg.properties[j])

\* a call with both types, two options and one property has returned
C15_Witness ==
    /\ fn = "BuildIndexArgs"
    /\ arg.indexType # <<>>
    /\ arg.entityType # <<>>
    /\ Cardinality(KeysOf(arg.options)) = 2
    /\ Len(arg.properties) = 1
    /\ Len(out) > 0
    /\ Len(out[1]) = 12

\* the 64-bit integers whose decimal text is s
DecimalOf(s) == {n \in MinInt..MaxInt : Itoa(n) = s}

\* C16: decoding an Integer-tagged value never fails: a native integer, a
\* 64-bit integer or the decimal text of an integer n gives n as a 64-bit
\* integer, and a string that is not numeric, a decimal string outside the
\* 64-bit range and null give 0.
C16_IntegerCoercion ==
    (fn = "parseValue" /\ arg.valueType = ValueTypeInteger /\ out # NoOut) =>
        /\ out # PanicV
        /\ out.k = "int64"
        /\ arg.value.k \in {"int", "int64"} => out.n = arg.value.n
        /\ arg.value.k = "string" =>
                IF DecimalOf(arg.value.s) # {}
                THEN out.n \in DecimalOf(arg.value.s)
                ELSE out.n = 0
        /\ arg.value.k = "nil" => out.n = 0

\* the type code of a scalar
TypeCodeOf(v) ==
    CASE v.k = "string" -> ValueTypeString
      [] v.k = "int64" -> ValueTypeInteger
      [] v.k = "bool" -> ValueTypeBoolean
      [] v.k = "float64" -> ValueTypeDouble
      [] OTHER -> ValueTypeUnknown

\* C17: for every string, 64-bit integer, boolean and double v, decoding the
\* tagged pair (type code of v, v) returns v; the type codes are String = 2,
\* Integer = 3, Boolean = 4, Double = 5.
C17_ScalarsRoundTrip ==
    /\ <<ValueTypeString, ValueTypeInteger, ValueTypeBoolean, ValueTypeDouble>>
            = <<2, 3, 4, 5>>
    /\ (/\ fn = "parseValue"
        /\ arg.value.k \in {"string", "int64", "bool", "float64"}
        /\ arg.valueType = TypeCodeOf(arg.value)
        /\ out # NoOut) => out = arg.value

\* the double 2.5 tagged Double has been decoded to 2.5
C17_Witness ==
    /\ fn = "parseValue"
    /\ arg = [valueType |-> ValueTypeDouble, value |-> FloatV(25)]
    /\ out = FloatV(25)

\* the triples [keyIndex, typeCode, value] among the elements of props
WellFormed(props) == {i \in DOMAIN props : IsArr(props[i]) /\ Len(props[i].a) = 3}

\* C18: decoding a Node payload [id, labelIndexSeq, propertyTripleSeq] yields
\* a Node with the id of the payload, with the resolved names of
\* labelIndexSeq as labels, in the same order and number, and with
\* properties that map the resolved key of every well-formed triple
\* [keyIndex, typeCode, value] to the decoded value.
C18_NodeDecoded ==
    (fn = "parseNode" /\ out # NoOut) =>
        /\ out # PanicV
        /\ out.k = "Node"
        /\ out.ID = ToInt64(arg.a[1])
        /\ Len(out.Labels) = Len(arg.a[2].a)
        /\ \A j \in DOMAIN arg.a[2].a :
                out.Labels[j] = Resolved(parser.labels, LabelPrefix, ToInt(arg.a[2].a[j]))
        /\ out.Properties.k = "map"
        /\ \A i \in WellFormed(arg.a[3].a) :
                LET t == arg.a[3].a[i].a
                    key == Resolved(parser.propertyKeys, PropPrefix, ToInt(t[1]))
                IN /\ key \in DOMAIN out.Properties.m
                   /\ out.Properties.m[key] = parseValue(parser, ToInt(t[2]), t[3])

\* C19: decoding a Path payload [nodesWrapper, edgesWrapper] unwraps two
\* levels: for wrappers [ArrayTypeCode, items] whose items are tagged pairs
\* [typeCode, payload], Path.Nodes holds exactly one Node per item of the node
\* wrapper and Path.Edges exactly one Edge per item of the edge wrapper, in
\* wrapper order.
C19_PathDoubleUnwrap ==
    (/\ fn = "parsePath"
     /\ out # NoOut
     /\ \A i \in DOMAIN arg.a[1].a[2].a : IsTagged(arg.a[1].a[2].a[i])
     /\ \A i \in DOMAIN arg.a[2].a[2].a : IsTagged(arg.a[2].a[2].a[i])) =>
        /\ out # PanicV
        /\ out.k = "Path"
        /\ Len(out.Nodes) = Len(arg.a[1].a[2].a)
        /\ \A i \in DOMAIN out.Nodes :
                /\ out.Nodes[i].k = "Node"
                /\ out.Nodes[i] = parseNode(parser, arg.a[1].a[2].a[i].a[2])
        /\ Len(out.Edges) = Len(arg.a[2].a[2].a)
        /\ \A i \in DOMAIN out.Edges :
                /\ out.Edges[i].k = "Edge"
                /\ out.Edges[i] = parseEdge(parser, arg.a[2].a[2].a[i].a[2])

\* the type codes parseValue has a case for
KnownTypeCodes == ValueTypeNull..ValueTypePoint

\* C20: for every type code outside Null, String, Integer, Boolean, Double,
\* Array, Edge, Node, Path, Map and Point (0, 12 to 16, a negative or a larger
\* code), decoding returns the payload itself and never fails.
C20_UnknownPassthrough ==
    (fn = "parseValue" /\ arg.valueType \notin KnownTypeCodes /\ out # NoOut) =>
        out = arg.value

\* the date-time code 13 with a text payload has been decoded to the payload
C20_Witness ==
    /\ fn = "parseValue"
    /\ arg.valueType = ValueTypePoint + 2
    /\ arg.value = StrV(<<"2", "x">>)
    /\ out = arg.value

\* the name a cell at column j (from 1) is to be stored under
ColumnName(headers, j) ==
    IF j <= Len(headers) THEN headers[j].Name ELSE ColumnPrefix \o Itoa(j - 1)

\* C21: the Result Assembler stores the cell at column i of every row under
\* the name of header i, or under "column_<i>" when there is no header at
\* position i; a cell that is a 2-element tagged tuple is decoded by its type
\* code, and every other cell, a scalar or a sequence of any other length, is
\* stored raw and unchanged.
C21_RowAssembled ==
    (fn = "parseResult" /\ out # NoOut) =>
        /\ out # PanicV
        /\ \A i \in (IF IsArr(arg.Data) THEN DOMAIN arg.Data.a ELSE {}) :
            IsArr(arg.Data.a[i]) =>
                \A j \in DOMAIN arg.Data.a[i].a :
                    LET cell == arg.Data.a[i].a[j]
                        name == ColumnName(out.Headers, j)
                    IN /\ out.Data[i].k = "map"
                       /\ name \in DOMAIN out.Data[i].m
                       /\ out.Data[i].m[name] =
                            IF IsArr(cell) /\ Len(cell.a) = 2
                            THEN parseValue(parser, ToInt(cell.a[1]), cell.a[2])
                            ELSE cell

\* C22: a dictionary cache belongs to exactly one graph handle: SelectGraph
\* returns a handle whose three tables are empty, a step of a call through
\* the first handle leaves the tables of the other handle as they are, and a
\* query through the other handle leaves the tables of the first, also when
\* both handles name the same graph.
C22_CachePerHandle ==
    [][/\ (out = NoOut /\ out' # NoOut) => ParserAt(out.parser)' = newResultParser
       /\ (out # NoOut /\ (pc' # pc \/ calls' # calls)) =>
                ParserAt(out.parser)' = ParserAt(out.parser)
       /\ (out # NoOut /\ pc' = pc /\ calls' = calls) => parser' = parser]_vars

\* two handles on the same graph hold different tables: the first was
\* refreshed, the other is new
C22_Witness ==
    /\ out # NoOut
    /\ out.name = GraphName
    /\ parser # newResultParser
    /\ ParserAt(out.parser) = newResultParser

\* C23: a handle is safe for concurrent use.  Under fair scheduling and a
\* transport that always answers, every call of Query or ROQuery that has
\* started eventually returns, so none waits forever for the lock of the
\* handle; and a goroutine that is not inside a call holds the lock neither
\* as the writer nor as a reader, whichever way its call returned.
C23_EveryCallReturns ==
    /\ [](\A t \in Goroutines :
            pc[t] = "idle" => (mu.writer # t /\ t \notin mu.readers))
    /\ \A t \in Goroutines : (pc[t] # "idle") ~> (pc[t] = "idle")

\* a call waits in Lock for the reader that decodes
C23_Witness ==
    /\ pc[1] = "lockWait"
    /\ pc[2] = "decode"
    /\ mu.writer = 1
    /\ mu.readers = {2}

\* C24: Connect detects the connection type: when the server it reaches is a
\* sentinel, the returned client is connected to the master the sentinel
\* reports; when the server is in cluster mode, the returned client is a
\* cluster client; otherwise it is a standalone client.
C24_ConnectionTypeDetected ==
    (fn = "Connect" /\ out # NoOut /\ out.err = NoError) =>
        CASE arg.kind = "sentinel" /\ parseMasterAddr(arg.masters) # <<>> ->
                out.client = singleClient(parseMasterAddr(arg.masters))
          [] arg.kind = "cluster" -> out.client = clusterClient(arg.addr)
          [] OTHER -> out.client = singleClient(arg.addr)

\* value is of the wrong shape for the type code: no sequence, or a sequence
\* shorter than 3, 5, 2, 2 elements for Node, Edge, Path, Point
WrongShape(valueType, value) ==
    /\ valueType \in {ValueTypeArray, ValueTypeNode, ValueTypeEdge, ValueTypePath,
                      ValueTypeMap, ValueTypePoint}
    /\ \/ ~IsArr(value)
       \/ valueType = ValueTypeNode /\ Len(value.a) < 3
       \/ valueType = ValueTypeEdge /\ Len(value.a) < 5
       \/ valueType \in {ValueTypePath, ValueTypePoint} /\ Len(value.a) < 2

\* v is a nil: the nil interface, a nil pointer, a nil slice or a nil map
Absent(v) == v.k \in {"nil", "typednil"}

\* C25: the Typed Value Decoder and the Result Assembler never fail: every
\* RawResult is decoded, an Array, Node, Edge, Path, Map or Point payload of
\* the wrong shape decodes to an absent value, and the other cells of the row
\* are still decoded.
C25_DecodingNeverFails ==
    /\ (fn = "parseValue" /\ out # NoOut) =>
            /\ out # PanicV
            /\ WrongShape(arg.valueType, arg.value) => Absent(out)
    /\ (fn = "parseResult" /\ out # NoOut) =>
            /\ out # PanicV
            /\ \A i \in (IF IsArr(arg.Data) THEN DOMAIN arg.Data.a ELSE {}) :
                IsArr(arg.Data.a[i]) =>
                    /\ out.Data[i].k = "map"
                    /\ DOMAIN out.Data[i].m =
                            {ColumnName(out.Headers, j) : j \in DOMAIN arg.Data.a[i].a}
                    /\ \A j \in DOMAIN arg.Data.a[i].a :
                            LET cell == arg.Data.a[i].a[j]
                            IN (IsTagged(cell) /\ WrongShape(ToInt(cell.a[1]), cell.a[2])) =>
                                    Absent(out.Data[i].m[ColumnName(out.Headers, j)])

\* the pairs of a flat sequence arr: 1..floor(Len(arr) / 2)
PairsOf(arr) == 1..(Len(arr) \div 2)

\* C26: decoding a Map payload reads the flat sequence as consecutive (key,
\* value) pairs: the key is the text of the element, whatever the cache
\* holds; a value that is a tagged pair is decoded by its code; the last
\* element of a payload of odd length is ignored; the result has at most
\* floor(length / 2) entries, the last pair of a key giving its value.
C26_MapPairs ==
    (fn = "parseMap" /\ out # NoOut /\ IsArr(arg)) =>
        /\ out # PanicV
        /\ out.k = "map"
        /\ DOMAIN out.m = {ToString(arg.a[2 * i - 1]) : i \in PairsOf(arg.a)}
        /\ Cardinality(DOMAIN out.m) <= Len(arg.a) \div 2
        /\ \A i \in PairsOf(arg.a) :
              (\A h \in PairsOf(arg.a) :
                    h > i => ToString(arg.a[2 * h - 1]) # ToString(arg.a[2 * i - 1])) =>
                 out.m[ToString(arg.a[2 * i - 1])] =
                    IF IsTagged(arg.a[2 * i])
                    THEN parseValue(newResultParser, ToInt(arg.a[2 * i].a[1]), arg.a[2 * i].a[2])
                    ELSE arg.a[2 * i]

\* a payload of five elements with the key a twice has been decoded with a
\* cache that holds names: one entry, the value of the second pair
C26_Witness ==
    /\ fn = "parseMap"
    /\ parser = PersonCache
    /\ arg = ArrV(<<StrV(<<"a">>), Int64V(5), StrV(<<"a">>),
                    Tagged(ValueTypeInteger, StrV(<<"2", "5">>)), StrV(<<"b">>)>>)
    /\ out = MapV([x \in {<<"a">>} |-> Int64V(25)])

\* C27: only Query and ROQuery change the cache of a handle. A call of Explain,
\* Profile, SlowLog, MemoryUsage, Delete, Copy, ConstraintCreate or
\* ConstraintDrop is one command: it has returned as soon as it was sent, has
\* sent no lookup and holds no lock, and its step leaves the three tables and
\* the lock as they were; a table changes only where a Query or ROQuery
\* stores the result of a lookup.
C27_OnlyQueriesChangeCache ==
    /\ [](\A t \in Goroutines :
             cmd[t] \in AdminCommands =>
                 /\ pc[t] = "idle"
                 /\ ret[t] # NoReturn
                 /\ lookups[t] = <<>>
                 /\ mu.writer # t /\ t \notin mu.readers)
    /\ [][/\ \A t \in Goroutines :
                (cmd'[t] \in AdminCommands /\ (cmd'[t] # cmd[t] \/ ret'[t] # ret[t])) =>
                    parser' = parser /\ mu' = mu /\ pc' = pc
          /\ parser' # parser =>
                \E t \in Goroutines :
                    /\ cmd[t] \in {CmdQuery, CmdROQuery}
                    /\ pc[t] \in {"setLabels", "setRelTypes", "setPropertyKeys"}]_vars

\* a Profile has run its query on the server, which holds a label since, while
\* the other goroutine was in Lock with its refresh not started: the cache is
\* still empty
C27_Witness ==
    \E t \in Goroutines : \E u \in Goroutines \ {t} :
        /\ cmd[t] = CmdProfile
        /\ ret[t] = Return(PlanReply, NoError)
        /\ srv.labels # <<>>
        /\ parser = newResultParser
        /\ mu.writer = u
        /\ pc[u] = "labels"

\* the rows of the reply of a lookup
RowsOf(result) == result.a[2].a

\* a row of a lookup reply as the server sends it: a sequence whose first cell
\* is a tagged pair with a string as its value
GoodRow(row) ==
    /\ IsArr(row) /\ Len(row.a) > 0
    /\ IsArr(row.a[1]) /\ Len(row.a[1].a) >= 2
    /\ row.a[1].a[2].k = "string"

\* C28: the list built from the reply of a catalog lookup keeps the server's
\* positions: the name of row i of the reply is at position i of the list,
\* for every reply, also one with rows that are malformed.
C28_PositionsKept ==
    (fn = "extractStringList" /\ out # NoOut) =>
        \A i \in 1..Len(RowsOf(arg)) :
            GoodRow(RowsOf(arg)[i]) =>
                /\ i <= Len(out.strs)
                /\ out.strs[i] = RowsOf(arg)[i].a[1].a[2].s

\* the goroutines inside updateMetadataFromResult
Refreshing == {t \in Goroutines : pc[t] \in RefreshPcs}

\* C29: the exclusive lock of the handle is held for the whole refresh, round
\* trips included. At most one goroutine is inside a refresh, it is the writer
\* from its first lookup to its last store, and no goroutine enters the
\* decoding of its reply while a refresh is in flight.
C29_LockHeldForWholeRefresh ==
    /\ [](/\ Cardinality(Refreshing) <= 1
          /\ Refreshing \subseteq {mu.writer})
    /\ [][\A t \in Goroutines :
             /\ (t \in Refreshing /\ pc'[t] \in RefreshPcs) => mu'.writer = t
             /\ (pc[t] = "rlock" /\ pc'[t] = "decode") => Refreshing = {}]_vars

\* a goroutine is between its second and its third lookup while the other one
\* holds its reply and waits to decode it
C29_Witness ==
    \E t \in Goroutines : \E u \in Goroutines \ {t} :
        /\ pc[t] = "propertyKeys"
        /\ Len(lookups[t]) = 2
        /\ pc[u] = "rlock"
        /\ raw[u] # NilRawResult

\* what the call of goroutine t has returned is the error of the reply splitter
FormatErrorReturned(t) ==
    /\ ret[t] # NoReturn
    /\ ret[t].err # NoError
    /\ ret[t].err \notin TransportErrors

\* C30: a Query or ROQuery whose reply does not split (no sequence, a length
\* other than 1 and 3, metadata that is no sequence) returns the error and no
\* result after its refresh: the three lookups were sent before the error was
\* returned, and what they stored stays in the tables.
C30_RefreshBeforeFormatError ==
    /\ [](\A t \in Goroutines :
             FormatErrorReturned(t) =>
                 /\ cmd[t] \in {CmdQuery, CmdROQuery}
                 /\ ret[t].result = NilQueryResult
                 /\ lookups[t] = RefreshLookups
                 /\ pc[t] = "idle")
    /\ [][\A t \in Goroutines :
             (~FormatErrorReturned(t) /\ FormatErrorReturned(t)') =>
                 /\ pc[t] = "unlock"
                 /\ ret'[t].err = ParseResult(reply[t]).err
                 /\ parser' = parser]_vars

\* a call has returned a reply-format error for a reply of length 2, and the
\* label its refresh stored is in the cache: it was empty when the call began,
\* since the only other call has not reached its refresh
C30_Witness ==
    \E t \in Goroutines : \E u \in Goroutines \ {t} :
        /\ FormatErrorReturned(t)
        /\ ret[t].err = ParseResult(ArrV(<<Meta, Meta>>)).err
        /\ parser.labels # <<>>
        /\ pc[u] = "lock"

=============================================================================
